---- MODULE Spec2Model ----
(***************************************************************************)
(* PXP-201 UI (App.jsx, lib/format.js): the handlers of the Encrypt,       *)
(* Decrypt, WK1 and Test-vectors panels as a state machine.  React state   *)
(* is the VARIABLES; every handler (with the effects its state changes     *)
(* trigger) is one action; every `await` of an SDK call splits a handler   *)
(* into the part before the call and the continuation after it.            *)
(***************************************************************************)
EXTENDS Integers, Sequences, FiniteSets, TLC

\* ------------------------------------------------------------------ bounds
MaxRunId == 4          \* SpecDecrypt: run starts + Clears explored
MaxPending == 3        \* SpecDecrypt: runs awaiting the SDK at one time
MaxAutoRunId == 2      \* SpecAuto, SpecAutoAad: run starts + Clears explored
MaxAutoPending == 1    \* SpecAuto, SpecAutoAad: runs awaiting the SDK at one time
MaxVecOps == 2         \* SpecVectors: handlers of VectorsPanel started
MaxVecPending == 2     \* SpecVectors: handlers awaiting at one time
MaxBundleRuns == 2     \* SpecBundle: runs started per panel
MaxBundlePending == 1  \* SpecBundle: runs awaiting the SDK at one time per panel
MaxRestLen == 2        \* SpecWk1: characters typed after the wk1 prefix
MaxRecipients == 2     \* SpecEncrypt, SpecRoundTrip: recipients in the list
MaxKeys == 3           \* SpecEncrypt, SpecRoundTrip: key pairs drawn
MaxEdits == 2          \* SpecEncrypt: edits of the Encrypt tab's inputs
MaxEncRuns == 1        \* SpecEncrypt: runs started
MaxEncPending == 1     \* SpecEncrypt: runs awaiting the SDK at one time
MaxImportOps == 1      \* SpecImport: files picked
MaxImportPending == 1  \* SpecImport: file reads, and Decrypt runs, pending at one time
MaxImportRunId == 1    \* SpecImport: runIdRef.current in the Decrypt tab
MaxExportOps == 2      \* SpecExport: self-tests started
MaxExportPending == 1  \* SpecExport: self-tests awaiting the SDK at one time
MaxResolveRunId == 1   \* SpecResolve: runIdRef.current
MaxResolvePending == 1 \* SpecResolve: runs awaiting the SDK at one time
MaxHexBytes == 2       \* SpecCodec: length of the byte sequences printed
MaxHexChars == 4       \* SpecCodec: number of characters typed after the optional 0x
MaxWkEdits == 1         \* SpecWkOps: edits of the fields other than wrappedKey
MaxWkOps == 2           \* SpecWkOps: clicks of Wrap and Unwrap
MaxWkPending == 1       \* SpecWkOps: doWrap/doUnwrap calls awaiting the SDK at one time
MaxTripEdits == 1      \* SpecRoundTrip: edits of the Encrypt tab's inputs
MaxTripRuns == 1       \* SpecRoundTrip: runs started per panel
MaxTripPending == 1    \* SpecRoundTrip: runs awaiting the SDK at one time per panel

\* --------------------------------------------------------- program constants
DebounceTicks == 3     \* setTimeout(..., 300): 300 ms in ticks of 100 ms

\* ------------------------------------------------------------- JS values
Undef == "<undefined>"
DefaultAad == "app:pxp201-ui|v0.1"
OtherAad == "app:other"

\* The value false, where a string is expected
JsFalse == "<false>"
Falsy(s) == s \in {Undef, "", JsFalse}
Truthy(s) == ~Falsy(s)
\* a || b on strings
OrElse(a, b) == IF Falsy(a) THEN b ELSE a
\* typeof s === "string" && s.length > 0
IsNonEmptyString(s) == s # Undef /\ s # ""
\* aadText || undefined, the form every SDK call receives
SdkAad(a) == IF Falsy(a) THEN Undef ELSE a

\* A thrown Error(message), and String(e?.message || e) of it: an Error with an
\* empty message prints as its name.
ErrString(message) == IF Falsy(message) THEN "Error" ELSE message

\* -------------------------------------------------- the SDK's value algebra
DefaultRid == "did:pkh:eip155:1:0xDEMO_RECIPIENT"
\* `did:pkh:eip155:1:0xDEMO_RECIPIENT_${n}`
DemoRid(n) == "did:pkh:eip155:1:0xDEMO_RECIPIENT_" \o ToString(n)
PrivKeys == {"sk1", "sk2"}
\* secp.utils.randomSecretKey(): the n-th key drawn; no two draws are equal
KeyPool == <<"sk3", "sk4", "sk5", "sk6", "sk7", "sk8", "sk9", "sk10">>
Deks == {"dek1", "dek2"}
Plaintexts == {"P1", "P2"}

\* secp.getPublicKey(priv): the public half of a key pair
PubOf(priv) ==
  CASE priv = "sk1" -> "pk1" [] priv = "sk2" -> "pk2" [] priv = "sk3" -> "pk3"
    [] priv = "sk4" -> "pk4" [] priv = "sk5" -> "pk5" [] priv = "sk6" -> "pk6"
    [] priv = "sk7" -> "pk7" [] priv = "sk8" -> "pk8" [] priv = "sk9" -> "pk9"
    [] priv = "sk10" -> "pk10" [] OTHER -> Undef

NoCt == [pt |-> Undef, dek |-> Undef, aad |-> Undef, nonce |-> Undef]
NoWk == [dek |-> Undef, pub |-> Undef, kid |-> Undef, aad |-> Undef]
NoHash == <<>>
HashOf(x) == <<"sha256", x>>

\* encryptTextRaw({plaintext, cipher, aadText}) with the DEK and nonce it drew
SdkEncrypt(pt, aad, dek, nonce) ==
  LET ct == [pt |-> pt, dek |-> dek, aad |-> aad, nonce |-> nonce]
  IN [ciphertextB64url |-> ct, nonceB64url |-> nonce, dek |-> dek,
      ciphertextHash |-> HashOf(ct),
      aadHash |-> IF aad = Undef THEN NoHash ELSE HashOf(aad)]

\* wrapDEK_secp256k1({dek, recipientPubKeyHex, kid, aadText})
SdkWrap(dek, pub, kid, aad) == [dek |-> dek, pub |-> pub, kid |-> kid, aad |-> aad]

\* unwrapDEK_secp256k1({wrappedKey, recipientPrivKeyHex, aadText}): the DEK, or a
\* rejection when the key or the associated data does not match
SdkUnwrap(wk, priv, aad) ==
  IF wk # NoWk /\ PubOf(priv) # Undef /\ wk.pub = PubOf(priv) /\ wk.aad = aad
  THEN [ok |-> TRUE, dek |-> wk.dek, error |-> ""]
  ELSE [ok |-> FALSE, dek |-> Undef, error |-> "unwrap failed"]

\* decryptTextFromEnvelope({envelope, dek, ciphertextB64url, nonceB64url, aadText})
SdkDecrypt(env, dek, ct, nonce, aad) ==
  IF ct # NoCt /\ ct.dek = dek /\ ct.aad = aad /\ ct.nonce = nonce
     /\ env.ciphertextHash = HashOf(ct)
  THEN [ok |-> TRUE, plaintext |-> ct.pt, error |-> ""]
  ELSE [ok |-> FALSE, plaintext |-> "", error |-> "decrypt failed"]

\* validateEnvelope(envelope): the schema is the SDK's; an envelope document
\* carries the verdict the SDK gives on it
SdkValidateOk(env) == env.schemaOk

\* ------------------------------------------------------- bundle documents
NoEnvelope ==
  [present |-> FALSE, schemaOk |-> FALSE, recipientsKind |-> "undefined",
   recipients |-> <<>>, ciphertextHash |-> NoHash, aadHash |-> NoHash,
   createdAt |-> Undef]
\* dekHex is the text of a string field of that name (its characters), <<>> when
\* the field is missing, empty or no string
NoRaw ==
  [ciphertextB64url |-> NoCt, nonceB64url |-> Undef,
   ciphertextHash |-> NoHash, aadHash |-> NoHash, dekHex |-> <<>>]
\* rawOut === null; otherwise what encryptTextRaw returned
NoRawOut ==
  [ciphertextB64url |-> NoCt, nonceB64url |-> Undef, dek |-> Undef,
   ciphertextHash |-> NoHash, aadHash |-> NoHash]
\* A key map of a bundle: kind is "undefined" for a missing field, map holds the
\* object's own properties
NoMap == [kind |-> "undefined", map |-> [k \in {} |-> Undef]]
NoRecipient == [rid |-> Undef, recipientPubHex |-> Undef, recipientPrivHex |-> Undef]

\* {}: the document JSON.parse("{}") gives
EmptyDoc ==
  [aadText |-> Undef, raw |-> NoRaw, envelope |-> NoEnvelope,
   recipientPrivHexByRid |-> NoMap, recipientPubHexByRid |-> NoMap,
   recipient |-> NoRecipient, wrappedKey |-> NoWk, dekHex |-> <<>>]

\* A text is "", text that is no JSON, the text null, or the JSON text of a
\* document.
EmptyText == [kind |-> "empty", doc |-> EmptyDoc]
GarbageText == [kind |-> "garbage", doc |-> EmptyDoc]
NullText == [kind |-> "null", doc |-> EmptyDoc]
\* JSON.stringify(doc, null, 2): a property whose value is undefined is left out
JsonMap(m) ==
  [kind |-> m.kind, map |-> [k \in {x \in DOMAIN m.map : m.map[x] # Undef} |-> m.map[k]]]
JSONStringify(doc) ==
  [kind |-> "json",
   doc |-> [doc EXCEPT !.recipientPrivHexByRid = JsonMap(@),
                       !.recipientPubHexByRid = JsonMap(@)]]
\* JSON.parse(text || "{}"): isNull tells that the value is null, of which every
\* b?.x is undefined as of {} while b.x and a destructuring throw a TypeError
JSONParseOrEmpty(text) ==
  CASE text.kind = "empty" -> [ok |-> TRUE, doc |-> EmptyDoc, isNull |-> FALSE]
    [] text.kind = "garbage" -> [ok |-> FALSE, doc |-> EmptyDoc, isNull |-> FALSE]
    [] text.kind = "null" -> [ok |-> TRUE, doc |-> EmptyDoc, isNull |-> TRUE]
    [] OTHER -> [ok |-> TRUE, doc |-> text.doc, isNull |-> FALSE]
\* const { raw, envelope } = bundle of null
NullDestructure == "Cannot destructure property 'raw' of 'bundle' as it is null."

\* envelope?.access?.recipients || [] as an array, Array.isArray of it.  A value
\* that is no array ("nonarray") keeps in recipients the properties 0, 1, ... it
\* has (an object {"0": {...}}), none for a string or a number.
RecipsOf(env) == IF env.recipientsKind = "array" THEN env.recipients ELSE <<>>
RecipsIsArray(env) == env.recipientsKind \in {"undefined", "array"}
\* recips?.[0]?.rid, read without asking whether recips is an array
FirstRid(env) ==
  IF env.recipientsKind # "undefined" /\ Len(env.recipients) > 0
  THEN env.recipients[1].rid ELSE Undef
\* The properties an object inherits from Object.prototype.  Reading one on an
\* object that has no own property of that name gives a function (the prototype
\* itself for __proto__): a truthy value that is no string.
ObjectProtoKeys ==
  {"constructor", "hasOwnProperty", "isPrototypeOf", "propertyIsEnumerable",
   "toLocaleString", "toString", "valueOf", "__proto__", "__defineGetter__",
   "__defineSetter__", "__lookupGetter__", "__lookupSetter__"}
Inherited(key) == "<Object.prototype." \o key \o ">"
IsInherited(v) == \E k \in ObjectProtoKeys : v = Inherited(k)
\* The property key a rid is used as: String(rid)
PropKey(rid) == IF rid = Undef THEN "undefined" ELSE rid
\* privMap[rid] of an object
PropGet(m, rid) ==
  IF PropKey(rid) \in DOMAIN m.map THEN m.map[PropKey(rid)]
  ELSE IF PropKey(rid) \in ObjectProtoKeys THEN Inherited(PropKey(rid))
  ELSE Undef
\* setState(v) of a state that holds prev: React calls a function v as an
\* updater, v(prev), with no this.  Object.prototype.toString then returns
\* "[object Undefined]", Object (the constructor) the object of prev,
\* isPrototypeOf false while prev is a primitive; isPrototypeOf of an object
\* and the functions that need a this throw a TypeError, which React raises
\* again in the render.
UpdaterThrows ==
  {"hasOwnProperty", "propertyIsEnumerable", "toLocaleString", "valueOf",
   "__defineGetter__", "__defineSetter__", "__lookupGetter__", "__lookupSetter__"}
IsBoxed(v) == Len(v) >= 8 /\ SubSeq(v, 1, 8) = "<Object("
\* v is an object: the object Object(prev) made, or Object.prototype
IsObjectValue(v) == IsBoxed(v) \/ IsInherited(v)
SetStateThrows(v, prev) ==
  \/ \E k \in UpdaterThrows : v = Inherited(k)
  \/ v = Inherited("isPrototypeOf") /\ IsObjectValue(prev)
Boxed(prev) == IF IsObjectValue(prev) THEN prev ELSE "<Object(" \o prev \o ")>"
SetStateValue(v, prev) ==
  CASE v = Inherited("toString") -> "[object Undefined]"
    [] v = Inherited("isPrototypeOf") -> JsFalse
    [] v = Inherited("constructor") -> Boxed(prev)
    [] OTHER -> v

\* privMap && typeof privMap === "object" && rid ? privMap[rid] : ""
MapLookup(m, rid) ==
  IF m.kind = "object" /\ Truthy(rid) THEN PropGet(m, rid) ELSE ""

\* Object.fromEntries(recipReady.map((r) => [r.rid, r[field]])): a later entry
\* with the same rid replaces an earlier one
MapFromEntries(rs, field) ==
  [kind |-> "object",
   map |-> [k \in {PropKey(rs[i].rid) : i \in 1..Len(rs)} |->
              rs[CHOOSE i \in 1..Len(rs) :
                   /\ PropKey(rs[i].rid) = k
                   /\ \A j \in (i + 1)..Len(rs) : PropKey(rs[j].rid) # k][field]]]

\* The envelope runEncrypt and runGenerate build around the recipient entries
MkEnvelope(raw, entries) ==
  [present |-> TRUE, schemaOk |-> TRUE, recipientsKind |-> "array",
   recipients |-> entries, ciphertextHash |-> raw.ciphertextHash,
   aadHash |-> raw.aadHash, createdAt |-> "now"]

\* The raw part of a bundle or vector: the four fields picked out of rawOut
RawPart(raw) ==
  [ciphertextB64url |-> raw.ciphertextB64url, nonceB64url |-> raw.nonceB64url,
   ciphertextHash |-> raw.ciphertextHash, aadHash |-> raw.aadHash, dekHex |-> <<>>]

\* downloadBundle's payload
BundlePayload(aadText, rawOut, envelope, recipReady) ==
  [EmptyDoc EXCEPT
     !.aadText = OrElse(aadText, ""),
     !.raw = RawPart(rawOut),
     !.envelope = envelope,
     !.recipientPrivHexByRid = MapFromEntries(recipReady, "recipientPrivHex"),
     !.recipientPubHexByRid = MapFromEntries(recipReady, "recipientPubHex")]

\* ------------------------------------------------------- state (React state)
VARIABLES
  tab,          \* App: the mounted panel
  bundleInput,  \* App: the shared Bundle JSON text
  status,       \* App: {sdk, vectors} of the status box
  out,          \* DecryptPanel: {ok, plaintext, info, error}
  aadOverride,  \* DecryptPanel: the AAD field
  autoDecrypt,  \* DecryptPanel: the auto-decrypt checkbox
  selectedRid,  \* DecryptPanel: the recipient dropdown
  runIdRef,     \* DecryptPanel: runIdRef.current
  timers,       \* DecryptPanel: pending setTimeout callbacks with their closure
  decRuns,      \* DecryptPanel: runs suspended at an await, with their closure
  age,          \* ticks since bundleInput, autoDecrypt or selectedRid last changed
  hDec,         \* observations of DecryptPanel's runs (what the claims speak about)
  res,          \* VectorsPanel: the result box (null, or {mode, ok, ...})
  includePriv,  \* VectorsPanel: the "include demo privkey" checkbox
  importJson,   \* VectorsPanel: the imported bundle text
  autoRunAfterImport, \* VectorsPanel: the "auto-run after import" checkbox
  vecRuns,      \* VectorsPanel: handlers suspended at an await, with their closure
  hVec,         \* observations of VectorsPanel's handlers
  uncaught,     \* handlers whose promise rejected with nobody catching it
  wk1,          \* WK1Panel: its useState values, one field each
  hWk,          \* WK1Panel: the last call of parseWk1 (argument and what it did)
  wkRuns,       \* WK1Panel: doWrap and doUnwrap calls suspended at an await, with their closure
  enc,          \* EncryptPanel: its useState values, one field each
  encRuns,      \* EncryptPanel: runEncrypt calls suspended at an await, with their closure
  hEnc,         \* observations of EncryptPanel's runs, and the key pairs drawn so far
  bundleFile,   \* the bundle file last downloaded from the Encrypt tab
  codec         \* lib/format.js: the argument and the result of a hex codec call

appVars == <<tab, bundleInput, status>>
decVars == <<out, aadOverride, autoDecrypt, selectedRid, runIdRef, timers, decRuns, age, hDec>>
vecVars == <<res, includePriv, importJson, autoRunAfterImport, vecRuns, hVec>>
wkVars == <<wk1, hWk, wkRuns>>
encVars == <<enc, encRuns, hEnc, bundleFile>>
vars == <<appVars, decVars, vecVars, wkVars, encVars, uncaught, codec>>
\* what a handler of DecryptPanel, of VectorsPanel, of WK1Panel cannot touch
notDecVars == <<vecVars, wkVars, encVars, uncaught, codec>>
notVecVars == <<decVars, wkVars, encVars>>
notWkVars == <<decVars, vecVars, encVars, uncaught, codec>>
notEncVars == <<decVars, vecVars, wkVars, uncaught, codec>>

\* ------------------------------------------------------------ DecryptPanel
EmptyOut == [ok |-> FALSE, plaintext |-> "", info |-> <<>>, error |-> ""]
ErrorOut(msg) == [ok |-> FALSE, plaintext |-> "", info |-> <<>>, error |-> msg]

\* onStatus({sdk}) of EncryptPanel, DecryptPanel and WK1Panel: setStatus of the
\* App, which React drops once the App is unmounted
OnStatus(st, s) == IF tab = "crashed" THEN st ELSE [st EXCEPT !.sdk = s]

\* The message run() throws when it resolved no private key
NoPrivKeyMessage ==
  "No recipient privkey in bundle (expected recipientPrivHexByRid[rid] or recipient.recipientPrivHex). "
  \o "If you imported a vector, export it with 'include demo privkey' enabled."

\* recips.find((x) => x.rid === ridToUse) || recips[0]
FindEntry(recips, rid) ==
  IF \E i \in 1..Len(recips) : recips[i].rid = rid
  THEN recips[CHOOSE i \in 1..Len(recips) :
                /\ recips[i].rid = rid
                /\ \A j \in 1..(i - 1) : recips[j].rid # rid]
  ELSE recips[1]

\* run(), from its first statement to its first await: the error it throws, or
\* the arguments of the unwrap call; calls lists the SDK operations called.
RunSyncRecipientsFirst(text, sel, aadOv) ==
  LET p == JSONParseOrEmpty(text)
      b == p.doc
      raw == b.raw
      env == b.envelope
      aad == IF IsNonEmptyString(b.aadText) THEN b.aadText ELSE OrElse(aadOv, "")
      recips == RecipsOf(env)
      ridToUse == OrElse(sel, FirstRid(env))
      entry == FindEntry(recips, ridToUse)
      privHex == OrElse(OrElse(MapLookup(b.recipientPrivHexByRid, entry.rid),
                               b.recipient.recipientPrivHex), "")
      Fail(msg, calls) ==
        [ok |-> FALSE, error |-> ErrString(msg), calls |-> calls,
         wk |-> NoWk, rid |-> Undef, priv |-> "", aad |-> aad]
  IN IF ~p.ok THEN Fail("Unexpected token in JSON", <<>>)
     ELSE IF p.isNull THEN Fail(NullDestructure, <<>>)
     ELSE IF raw.ciphertextB64url = NoCt \/ Falsy(raw.nonceB64url)
       THEN Fail("bundle.raw missing ciphertextB64url/nonceB64url", <<>>)
     ELSE IF ~env.present THEN Fail("bundle.envelope missing", <<>>)
     ELSE IF ~RecipsIsArray(env) \/ Len(recips) = 0
       THEN Fail("envelope.access.recipients missing/empty", <<>>)
     ELSE IF ~SdkValidateOk(env) THEN Fail("invalid envelope", <<"validateEnvelope">>)
     ELSE IF Falsy(ridToUse) THEN Fail("No recipient rid available", <<"validateEnvelope">>)
     ELSE IF entry.wrappedKey = NoWk
       THEN Fail("No wrappedKey for selected recipient", <<"validateEnvelope">>)
     ELSE IF Falsy(privHex)
       THEN Fail(NoPrivKeyMessage, <<"validateEnvelope">>)
     ELSE [ok |-> TRUE, error |-> "", calls |-> <<"validateEnvelope", "unwrapDEK_secp256k1">>,
           wk |-> entry.wrappedKey, rid |-> entry.rid, priv |-> privHex, aad |-> aad]
RunSync(text, sel, aadOv) ==
  LET p == JSONParseOrEmpty(text)
      b == p.doc
      raw == b.raw
      env == b.envelope
      aad == IF IsNonEmptyString(b.aadText) THEN b.aadText ELSE OrElse(aadOv, "")
      recips == RecipsOf(env)
      ridToUse == OrElse(sel, FirstRid(env))
      entry == FindEntry(recips, ridToUse)
      privHex == OrElse(OrElse(MapLookup(b.recipientPrivHexByRid, entry.rid),
                               b.recipient.recipientPrivHex), "")
      Fail(msg, calls) ==
        [ok |-> FALSE, error |-> ErrString(msg), calls |-> calls,
         wk |-> NoWk, rid |-> Undef, priv |-> "", aad |-> aad]
  IN IF ~p.ok THEN Fail("Unexpected token in JSON", <<>>)
     ELSE IF p.isNull THEN Fail(NullDestructure, <<>>)
     ELSE IF raw.ciphertextB64url = NoCt \/ Falsy(raw.nonceB64url)
       THEN Fail("bundle.raw missing ciphertextB64url/nonceB64url", <<>>)
     ELSE IF ~env.present THEN Fail("bundle.envelope missing", <<>>)
     ELSE IF ~SdkValidateOk(env) THEN Fail("invalid envelope", <<"validateEnvelope">>)
     ELSE IF ~RecipsIsArray(env) \/ Len(recips) = 0
       THEN Fail("envelope.access.recipients missing/empty", <<"validateEnvelope">>)
     ELSE IF Falsy(ridToUse) THEN Fail("No recipient rid available", <<"validateEnvelope">>)
     ELSE IF entry.wrappedKey = NoWk
       THEN Fail("No wrappedKey for selected recipient", <<"validateEnvelope">>)
     ELSE IF Falsy(privHex)
       THEN Fail(NoPrivKeyMessage, <<"validateEnvelope">>)
     ELSE [ok |-> TRUE, error |-> "", calls |-> <<"validateEnvelope", "unwrapDEK_secp256k1">>,
           wk |-> entry.wrappedKey, rid |-> entry.rid, priv |-> privHex, aad |-> aad]

\* setOut({ok: true, plaintext, info, error: ""}) of a run
SuccessOut(text, sel, aadOv, plaintext) ==
  LET env == JSONParseOrEmpty(text).doc.envelope
  IN [ok |-> TRUE, plaintext |-> plaintext,
      info |-> <<env.ciphertextHash, env.aadHash, RunSync(text, sel, aadOv).rid, env.createdAt>>,
      error |-> ""]

\* The effect on [bundleInput]: sync the AAD field and the selected rid.
SyncEffect(text, sel, aadOv) ==
  LET p == JSONParseOrEmpty(text)
      b == p.doc
  IN IF ~p.ok THEN [aad |-> aadOv, sel |-> sel]
     ELSE [aad |-> IF IsNonEmptyString(b.aadText) THEN b.aadText ELSE aadOv,
           sel |-> IF Falsy(sel) /\ Truthy(FirstRid(b.envelope))
                   THEN FirstRid(b.envelope) ELSE sel]

\* The effect on [bundleInput, autoDecrypt, selectedRid]: its cleanup clears the
\* timer the previous run of the effect armed, then a new one is armed.
RearmNoCleanup(old, auto, text, sel, aadOv) ==
  old \cup (IF auto
            THEN {[left |-> DebounceTicks, text |-> text, sel |-> sel, aadOv |-> aadOv]}
            ELSE {})
Rearm(old, auto, text, sel, aadOv) ==
  IF auto
  THEN {[left |-> DebounceTicks, text |-> text, sel |-> sel, aadOv |-> aadOv]}
  ELSE {}

\* The timer callback's test before it calls run()
TimerWouldRun(text) ==
  LET p == JSONParseOrEmpty(text)
      b == p.doc
      hasAnyRecipient == b.envelope.recipientsKind = "array" /\ Len(b.envelope.recipients) > 0
      hasPrivMap == b.recipientPrivHexByRid.kind = "object"
      hasLegacyPriv == IsNonEmptyString(b.recipient.recipientPrivHex)
  IN /\ p.ok
     /\ b.raw.ciphertextB64url # NoCt
     /\ Truthy(b.raw.nonceB64url)
     /\ b.envelope.present
     /\ hasAnyRecipient
     /\ (hasPrivMap \/ hasLegacyPriv)

\* What React leaves after a handler set (t, au, s, a): the effects run after the
\* render, and a selectedRid set by the first effect renders again, which runs
\* the timer effect once more with that render's closure.
DecRender(t, au, s, a, h) ==
  LET textChanged == t # bundleInput
      se == IF textChanged THEN SyncEffect(t, s, a) ELSE [aad |-> a, sel |-> s]
      depsChanged == textChanged \/ au # autoDecrypt \/ s # selectedRid
      first == Rearm(timers, au, t, s, a)
  IN /\ bundleInput' = t
     /\ autoDecrypt' = au
     /\ selectedRid' = se.sel
     /\ aadOverride' = se.aad
     /\ timers' = IF ~depsChanged THEN timers
                  ELSE IF se.sel # s THEN Rearm(first, au, t, se.sel, se.aad)
                  ELSE first
     /\ age' = IF depsChanged THEN 0 ELSE age
     /\ hDec' = IF depsChanged
                THEN [h EXCEPT !.burst = IF age < DebounceTicks /\ @ < 2 THEN @ + 1
                                         ELSE IF age < DebounceTicks THEN @ ELSE 1,
                               !.autoRuns = 0]
                ELSE h

\* const runId = ++runIdRef.current (run) and runIdRef.current += 1 (Clear)
RunIdAfterStart(cur) == cur + 1
RunIdAfterClearReset(cur) == 0
RunIdAfterClear(cur) == cur + 1

\* A run that is suspended at its await of unwrapDEK_secp256k1; calls lists the
\* SDK operations it has called, unwrapArgs and decryptAad are what it passed
NewRun(id, text, sel, aadOv) ==
  LET s == RunSync(text, sel, aadOv)
  IN [id |-> id, text |-> text, sel |-> sel, aadOv |-> aadOv, stage |-> "unwrap",
      dek |-> Undef, det |-> "", calls |-> s.calls,
      unwrapArgs |-> [wrappedKey |-> s.wk, recipientPrivKeyHex |-> s.priv,
                      aadText |-> SdkAad(s.aad)],
      decryptAad |-> Undef]

\* run() up to its first await (or to the end of its catch when it throws before):
\* the primed out, status, runIdRef, decRuns; h is hDec with the run observed.
DecRunStart(text, sel, aadOv, h, maxId, maxPending) ==
  LET id == RunIdAfterStart(runIdRef)
      s == RunSync(text, sel, aadOv)
      noRecips == LET e == JSONParseOrEmpty(text).doc.envelope
                  IN e.present /\ (e.recipientsKind # "array" \/ Len(e.recipients) = 0)
      rawOk == LET raw == JSONParseOrEmpty(text).doc.raw
               IN raw.ciphertextB64url # NoCt /\ Truthy(raw.nonceB64url)
      h1 == [h EXCEPT !.started = @ + 1, !.ids = @ \cup {id}, !.dup = @ \/ id \in h.ids,
                      !.cleared = FALSE, !.lastId = id, !.lastDone = ~s.ok,
                      !.lastOut = IF s.ok THEN EmptyOut ELSE ErrorOut(s.error),
                      !.onFile = text = bundleFile,
                      !.sync = [noRecips |-> noRecips, rawOk |-> rawOk, ok |-> s.ok,
                                calls |-> s.calls]]
  IN /\ runIdRef < maxId
     /\ s.ok => Cardinality(decRuns) < maxPending
     /\ runIdRef' = id
     /\ decRuns' = IF s.ok THEN decRuns \cup {NewRun(id, text, sel, aadOv)} ELSE decRuns
     /\ out' = IF s.ok THEN EmptyOut ELSE ErrorOut(s.error)
     /\ status' = OnStatus(status, IF s.ok THEN "running" ELSE "error")
     /\ hDec' = h1

\* if (runId !== runIdRef.current) return;
\* A run of a panel that was unmounted meanwhile (det # "") reads the ref of its
\* own mount, which nothing increments any more.
IsStaleNever(r) == FALSE
IsStale(r) == IF r.det = "" THEN r.id # runIdRef ELSE r.det = "stale"

\* The end of a run after its last await: the success branch or the catch.
\* setOut of an unmounted panel does nothing; onStatus is the App's.
DecFinish(r, o, st) ==
  /\ decRuns' = decRuns \ {r}
  /\ out' = IF IsStale(r) \/ r.det # "" THEN out ELSE o
  /\ status' = IF IsStale(r) THEN status ELSE OnStatus(status, st)
  /\ hDec' = IF r.det # "" THEN hDec
             ELSE [hDec EXCEPT
                     !.stale = IF r.id # runIdRef THEN @ \cup {st} ELSE @,
                     !.lastDone = IF r.id = hDec.lastId THEN TRUE ELSE @,
                     !.lastOut = IF r.id = hDec.lastId THEN o ELSE @]

\* ---- DecryptPanel: the handlers

\* onChange of the Bundle JSON textarea
DecSetBundleInput(texts) ==
  \E t \in texts :
    /\ tab = "decrypt"
    /\ t # bundleInput
    /\ DecRender(t, autoDecrypt, selectedRid, aadOverride, hDec)
    /\ UNCHANGED <<notDecVars, tab, status, out, runIdRef, decRuns>>

\* onChange of the AAD field
DecSetAadOverride(aads) ==
  \E a \in aads :
    /\ tab = "decrypt"
    /\ a # aadOverride
    /\ DecRender(bundleInput, autoDecrypt, selectedRid, a, hDec)
    /\ UNCHANGED <<notDecVars, tab, status, out, runIdRef, decRuns>>

\* onChange of the auto-decrypt checkbox
DecSetAutoDecrypt ==
  /\ tab = "decrypt"
  /\ DecRender(bundleInput, ~autoDecrypt, selectedRid, aadOverride, hDec)
  /\ UNCHANGED <<notDecVars, tab, status, out, runIdRef, decRuns>>

\* The values of the <option>s of the recipient dropdown: "" and the rids of
\* the bundle.  An entry without rid gives an option without value and without
\* text, whose value is "".
RidOptions(text) ==
  LET recips == RecipsOf(JSONParseOrEmpty(text).doc.envelope)
  IN {""} \cup (IF JSONParseOrEmpty(text).ok
                THEN {OrElse(recips[i].rid, "") : i \in 1..Len(recips)} ELSE {})

\* onChange of the recipient dropdown
DecSetSelectedRid ==
  \E r \in RidOptions(bundleInput) :
    /\ tab = "decrypt"
    /\ r # selectedRid
    /\ DecRender(bundleInput, autoDecrypt, r, aadOverride, hDec)
    /\ UNCHANGED <<notDecVars, tab, status, out, runIdRef, decRuns>>

\* onClick of "Decrypt from bundle"
DecClickRun(maxId, maxPending) ==
  /\ tab = "decrypt"
  /\ DecRunStart(bundleInput, selectedRid, aadOverride, hDec, maxId, maxPending)
  /\ UNCHANGED <<notDecVars, tab, bundleInput, aadOverride, autoDecrypt, selectedRid, timers, age>>

\* onClick of "Clear"
DecClickClear(maxId) ==
  /\ tab = "decrypt"
  /\ runIdRef < maxId
  /\ runIdRef' = RunIdAfterClear(runIdRef)
  /\ out' = EmptyOut
  /\ DecRender(EmptyText, autoDecrypt, "", aadOverride,
               [hDec EXCEPT !.clears = @ + 1, !.cleared = TRUE])
  /\ UNCHANGED <<notDecVars, tab, status, decRuns>>

\* 100 ms pass; a timer that is due fires before more time passes
Tick ==
  /\ \A x \in timers : x.left > 0
  /\ timers' = {[x EXCEPT !.left = @ - 1] : x \in timers}
  /\ age' = IF age < DebounceTicks THEN age + 1 ELSE age
  /\ age' # age \/ timers' # timers
  /\ UNCHANGED <<notDecVars, appVars, out, aadOverride, autoDecrypt, selectedRid, runIdRef, decRuns, hDec>>

\* The setTimeout callback of the auto-run effect
DecTimerFire(maxId, maxPending) ==
  \E x \in timers :
    /\ x.left = 0
    /\ timers' = timers \ {x}
    /\ IF TimerWouldRun(x.text)
       THEN DecRunStart(x.text, x.sel, x.aadOv,
                        [hDec EXCEPT !.autoRuns = @ + 1, !.fireAge = age,
                                     !.fireBurst = hDec.burst, !.fireAuto = autoDecrypt],
                        maxId, maxPending)
       ELSE UNCHANGED <<out, status, runIdRef, decRuns, hDec>>
    /\ UNCHANGED <<notDecVars, tab, bundleInput, aadOverride, autoDecrypt, selectedRid, age>>

\* The SDK settles the unwrapDEK_secp256k1 call of run r: with its result, or
\* with a failure of its own (fault # "").  On success the run goes on to call
\* decryptTextFromEnvelope.
DecUnwrapReturns(faults) ==
  \E r \in decRuns, fault \in {""} \cup faults :
    LET s == RunSync(r.text, r.sel, r.aadOv)
        ret == IF fault = ""
               THEN SdkUnwrap(r.unwrapArgs.wrappedKey, r.unwrapArgs.recipientPrivKeyHex,
                              r.unwrapArgs.aadText)
               ELSE [ok |-> FALSE, dek |-> Undef, error |-> fault]
    IN /\ r.stage = "unwrap"
       /\ IF ret.ok
          THEN /\ decRuns' = (decRuns \ {r}) \cup
                               {[r EXCEPT !.stage = "decrypt", !.dek = ret.dek,
                                          !.calls = Append(@, "decryptTextFromEnvelope"),
                                          !.decryptAad = SdkAad(s.aad)]}
               /\ UNCHANGED <<out, status, hDec>>
          ELSE DecFinish(r, ErrorOut(ErrString(ret.error)), "error")
       /\ UNCHANGED <<notDecVars, tab, bundleInput, aadOverride, autoDecrypt, selectedRid, runIdRef, timers, age>>

\* The SDK settles the decryptTextFromEnvelope call of run r.
DecDecryptReturns(faults) ==
  \E r \in decRuns, fault \in {""} \cup faults :
    LET s == RunSync(r.text, r.sel, r.aadOv)
        b == JSONParseOrEmpty(r.text).doc
        ret == IF fault = ""
               THEN SdkDecrypt(b.envelope, r.dek, b.raw.ciphertextB64url,
                               b.raw.nonceB64url, r.decryptAad)
               ELSE [ok |-> FALSE, plaintext |-> "", error |-> fault]
    IN /\ r.stage = "decrypt"
       /\ IF ret.ok
          THEN DecFinish(r, SuccessOut(r.text, r.sel, r.aadOv, ret.plaintext), "ok")
          ELSE DecFinish(r, ErrorOut(ErrString(ret.error)), "error")
       /\ UNCHANGED <<notDecVars, tab, bundleInput, aadOverride, autoDecrypt, selectedRid, runIdRef, timers, age>>

\* ------------------------------------------------------------ VectorsPanel
GenPlaintext == "vector: hello from PXP-201"
GenAad == "app:pxp201-ui|vectors:v0.1"
GenRid == "did:pkh:eip155:1:0xDEMO_RECIPIENT"

NoChecks ==
  [present |-> FALSE, envelopeValid |-> FALSE, wk1Parsed |-> FALSE,
   hashMatch |-> FALSE, aadMatch |-> FALSE, decryptOk |-> FALSE]
NoVector ==
  [present |-> FALSE, aadText |-> Undef, rid |-> Undef, recipientPubHex |-> Undef,
   recipientPrivHex |-> Undef, wrappedKey |-> NoWk, raw |-> NoRaw,
   envelope |-> NoEnvelope]
NoFile == [kind |-> "none", v |-> NoVector]
\* res === null
NoRes ==
  [present |-> FALSE, mode |-> "", ok |-> FALSE, plaintext |-> Undef, error |-> Undef,
   checks |-> NoChecks, generated |-> NoVector, rid |-> Undef]
\* setRes({mode, ok: false, error: String(e?.message || e)})
FailRes(mode, msg) == [NoRes EXCEPT !.present = TRUE, !.mode = mode, !.error = msg]

\* onStatus({sdk}) of VectorsPanel: sets the SDK and the Vectors status, of a
\* mounted App
VecOnStatus(st, s) == IF tab = "crashed" THEN st ELSE [sdk |-> s, vectors |-> s]

\* raw.ciphertextHash === envelope.ciphertextHash
HashMatch(raw, env) == raw.ciphertextHash = env.ciphertextHash
\* !envelope.aadHash || raw.aadHash === envelope.aadHash
AadMatch(raw, env) == env.aadHash = NoHash \/ raw.aadHash = env.aadHash

\* runFromBundle, from its first statement to its first await
VecBundleSync(text) ==
  LET p == JSONParseOrEmpty(text)
      b == p.doc
      raw == b.raw
      env == b.envelope
      aad == IF b.aadText # Undef THEN b.aadText ELSE ""
      topWk == b.wrappedKey
      legacyPriv == OrElse(b.recipient.recipientPrivHex, "")
      legacyRid == OrElse(OrElse(b.recipient.rid, FirstRid(env)), "")
      recips == RecipsOf(env)
      entry == recips[1]
      mapPriv == IF b.recipientPrivHexByRid.kind = "object"
                 THEN OrElse(PropGet(b.recipientPrivHexByRid, entry.rid), legacyPriv)
                 ELSE legacyPriv
      wk == IF topWk # NoWk THEN topWk ELSE entry.wrappedKey
      privHex == IF topWk # NoWk THEN legacyPriv ELSE mapPriv
      rid == IF topWk # NoWk THEN legacyRid ELSE OrElse(entry.rid, legacyRid)
      Fail(msg, calls) ==
        [ok |-> FALSE, error |-> ErrString(msg), calls |-> calls,
         wk |-> NoWk, rid |-> Undef, priv |-> "", aad |-> aad]
  IN IF ~p.ok THEN Fail("Unexpected token in JSON", <<>>)
     ELSE IF p.isNull THEN Fail(NullDestructure, <<>>)
     ELSE IF raw.ciphertextB64url = NoCt \/ Falsy(raw.nonceB64url)
       THEN Fail("bundle.raw missing ciphertextB64url/nonceB64url", <<>>)
     ELSE IF ~env.present THEN Fail("bundle.envelope missing", <<>>)
     ELSE IF ~SdkValidateOk(env) THEN Fail("invalid envelope", <<"validateEnvelope">>)
     ELSE IF topWk = NoWk /\ (~RecipsIsArray(env) \/ Len(recips) = 0)
       THEN Fail("envelope.access.recipients missing/empty", <<"validateEnvelope">>)
     ELSE IF topWk = NoWk /\ entry.wrappedKey = NoWk
       THEN Fail("No wrappedKey found in envelope.access.recipients[0]", <<"validateEnvelope">>)
     ELSE IF Falsy(privHex)
       THEN Fail("No recipient privkey available in bundle (expected bundle.recipient.recipientPrivHex or bundle.recipientPrivHexByRid[rid])",
            <<"validateEnvelope">>)
     ELSE [ok |-> TRUE, error |-> "", calls |-> <<"validateEnvelope", "unwrapDEK_secp256k1">>,
           wk |-> wk, rid |-> rid, priv |-> privHex, aad |-> aad]

\* setRes of runFromBundle after its decrypt
VecBundleRes(text, plaintext) ==
  LET b == JSONParseOrEmpty(text).doc
      hashMatch == HashMatch(b.raw, b.envelope)
      aadMatch == AadMatch(b.raw, b.envelope)
  IN [NoRes EXCEPT
        !.present = TRUE, !.mode = "bundle", !.ok = TRUE, !.plaintext = plaintext,
        !.checks = [present |-> TRUE, envelopeValid |-> TRUE, wk1Parsed |-> TRUE,
                    hashMatch |-> hashMatch, aadMatch |-> aadMatch, decryptOk |-> TRUE],
        !.rid = VecBundleSync(text).rid]

\* setRes of runGenerate after its decrypt
VecGenResAlwaysOk(priv, raw, wk, env, plaintextOut) ==
  [NoRes EXCEPT
     !.present = TRUE, !.mode = "generate", !.ok = TRUE, !.plaintext = plaintextOut,
     !.checks = [present |-> TRUE, envelopeValid |-> TRUE, wk1Parsed |-> TRUE,
                 hashMatch |-> HashMatch(raw, env), aadMatch |-> AadMatch(raw, env),
                 decryptOk |-> plaintextOut = GenPlaintext],
     !.generated = [present |-> TRUE, aadText |-> GenAad, rid |-> GenRid,
                    recipientPubHex |-> PubOf(priv), recipientPrivHex |-> priv,
                    wrappedKey |-> wk, raw |-> RawPart(raw), envelope |-> env]]
VecGenRes(priv, raw, wk, env, plaintextOut) ==
  LET decryptOk == plaintextOut = GenPlaintext
      hashMatch == HashMatch(raw, env)
      aadMatch == AadMatch(raw, env)
  IN [NoRes EXCEPT
        !.present = TRUE, !.mode = "generate",
        !.ok = decryptOk /\ hashMatch /\ aadMatch,
        !.plaintext = plaintextOut,
        !.checks = [present |-> TRUE, envelopeValid |-> TRUE, wk1Parsed |-> TRUE,
                    hashMatch |-> hashMatch, aadMatch |-> aadMatch, decryptOk |-> decryptOk],
        !.generated = [present |-> TRUE, aadText |-> GenAad, rid |-> GenRid,
                       recipientPubHex |-> PubOf(priv), recipientPrivHex |-> priv,
                       wrappedKey |-> wk, raw |-> RawPart(raw), envelope |-> env]]

\* vectorToBundle without its test of recipientPrivHex
VectorToBundleNoPrivTest(file) ==
  LET v == file.v
      Fail(msg) == [ok |-> FALSE, error |-> msg, bundle |-> EmptyDoc]
  IN IF file.kind = "null" THEN Fail("Invalid vector JSON")
     ELSE IF v.raw.ciphertextB64url = NoCt \/ Falsy(v.raw.nonceB64url)
       THEN Fail("Vector missing raw.ciphertextB64url/nonceB64url")
     ELSE IF ~v.envelope.present THEN Fail("Vector missing envelope")
     ELSE IF v.wrappedKey = NoWk THEN Fail("Vector missing wrappedKey")
     ELSE [ok |-> TRUE, error |-> "",
           bundle |-> [EmptyDoc EXCEPT
                         !.aadText = IF v.aadText # Undef THEN v.aadText ELSE "",
                         !.raw = RawPart(v.raw),
                         !.envelope = v.envelope,
                         !.wrappedKey = v.wrappedKey,
                         !.recipient = [rid |-> v.rid, recipientPubHex |-> v.recipientPubHex,
                                        recipientPrivHex |-> v.recipientPrivHex]]]

\* vectorToBundle(v): the error it throws, or the legacy single-recipient bundle
VectorToBundle(file) ==
  LET v == file.v
      Fail(msg) == [ok |-> FALSE, error |-> msg, bundle |-> EmptyDoc]
  IN IF file.kind = "null" THEN Fail("Invalid vector JSON")
     ELSE IF v.raw.ciphertextB64url = NoCt \/ Falsy(v.raw.nonceB64url)
       THEN Fail("Vector missing raw.ciphertextB64url/nonceB64url")
     ELSE IF ~v.envelope.present THEN Fail("Vector missing envelope")
     ELSE IF v.wrappedKey = NoWk THEN Fail("Vector missing wrappedKey")
     ELSE IF Falsy(v.recipientPrivHex)
       THEN Fail("Vector missing recipientPrivHex. Re-export with 'include demo privkey' enabled.")
     ELSE [ok |-> TRUE, error |-> "",
           bundle |-> [EmptyDoc EXCEPT
                         !.aadText = IF v.aadText # Undef THEN v.aadText ELSE "",
                         !.raw = RawPart(v.raw),
                         !.envelope = v.envelope,
                         !.wrappedKey = v.wrappedKey,
                         !.recipient = [rid |-> v.rid, recipientPubHex |-> v.recipientPubHex,
                                        recipientPrivHex |-> v.recipientPrivHex]]]

\* The try block of importVectorFile over the text read from the file
ImportParse(file) ==
  IF file.kind = "garbage"
  THEN [ok |-> FALSE, error |-> "Unexpected token in JSON", bundle |-> EmptyDoc]
  ELSE VectorToBundle(file)

\* ---------------------------------------------------------------- WK1Panel
\* A value of the wrappedKey field.  A string is its leading characters followed
\* (body # NoWk) by the base64url block of the JSON of a wrapped key, which is
\* how the SDK prints the keys it wraps; a bundle may also carry a JSON number.
Wk1Prefix == <<"p", "x", "p", "2", "0", "1", ":", "w", "k", "1", ":">>
WkStr(chars, body) == [kind |-> "string", chars |-> chars, body |-> body]
WkNumber == [kind |-> "number", chars |-> <<>>, body |-> NoWk]
\* the wrappedKey field of a bundle that holds a number
NumberWk == [dek |-> Undef, pub |-> Undef, kid |-> Undef, aad |-> "<number>"]
\* the value of a bundle's (truthy) wrappedKey field
WkOfField(v) == IF v = NumberWk THEN WkNumber ELSE WkStr(Wk1Prefix, v)
\* !wrappedKey is false
WkTruthy(w) == w.kind # "string" \/ w.chars # <<>> \/ w.body # NoWk

\* The number of characters of the base64url block of a wrapped key: the block
\* is the unpadded base64url of the JSON text {"dek":..,"pub":..,"kid":..,"aad":..}
\* of the key, a field that is undefined being left out.
WkJsonLen(body) ==
  LET FieldLen(v) == IF v = Undef THEN 0 ELSE 8 + Len(v)
      fields == <<body.dek, body.pub, body.kid, body.aad>>
      present == Cardinality({i \in 1..4 : fields[i] # Undef})
  IN 2 + FieldLen(body.dek) + FieldLen(body.pub) + FieldLen(body.kid) + FieldLen(body.aad)
       + (IF present > 0 THEN present - 1 ELSE 0)
BlockLen(body) == IF body = NoWk THEN 0 ELSE (4 * WkJsonLen(body) + 2) \div 3

\* wrappedKey.startsWith(prefix)
StartsWith(chars, prefix) ==
  Len(chars) >= Len(prefix) /\ SubSeq(chars, 1, Len(prefix)) = prefix

\* The base64 alphabet: a character's value is its place, counted from 0
B64Alphabet ==
  <<"A", "B", "C", "D", "E", "F", "G", "H", "I", "J", "K", "L", "M", "N", "O", "P",
   "Q", "R", "S", "T", "U", "V", "W", "X", "Y", "Z", "a", "b", "c", "d", "e", "f",
   "g", "h", "i", "j", "k", "l", "m", "n", "o", "p", "q", "r", "s", "t", "u", "v",
   "w", "x", "y", "z", "0", "1", "2", "3", "4", "5", "6", "7", "8", "9", "+", "/">>
B64Value(c) == (CHOOSE v \in 1..64 : B64Alphabet[v] = c) - 1
\* ASCII white space, which atob removes before it decodes
AtobWhiteSpace == {" ", "\t", "\n", "\f", "\r"}
\* atob(b64), first part: white space is removed, then one or two "=" at the end
\* of a text whose length is a multiple of 4
AtobData(b64) ==
  LET Kept(c) == c \notin AtobWhiteSpace
      d == SelectSeq(b64, Kept)
      n == Len(d)
  IN IF n % 4 = 0 /\ n >= 2 /\ d[n] = "=" /\ d[n - 1] = "=" THEN SubSeq(d, 1, n - 2)
     ELSE IF n % 4 = 0 /\ n >= 1 /\ d[n] = "=" THEN SubSeq(d, 1, n - 1)
     ELSE d
\* atob throws when a length of 4k + 1 or a character outside the alphabet is left
AtobOk(b64) ==
  LET d == AtobData(b64)
  IN Len(d) % 4 # 1 /\ \A i \in 1..Len(d) : \E v \in 1..64 : B64Alphabet[v] = d[i]
\* atob(b64), second part: 3 bytes per 4 characters, 1 or 2 bytes for the 2 or 3
\* characters left at the end
AtobBytes(d) ==
  LET v(i) == B64Value(d[i])
      n == 3 * (Len(d) \div 4) + (IF Len(d) % 4 >= 2 THEN (Len(d) % 4) - 1 ELSE 0)
  IN [k \in 1..n |->
        LET g == 4 * ((k - 1) \div 3)
        IN IF (k - 1) % 3 = 0 THEN (v(g + 1) * 64 + v(g + 2)) \div 16
           ELSE IF (k - 1) % 3 = 1 THEN ((v(g + 2) * 64 + v(g + 3)) \div 4) % 256
           ELSE (v(g + 3) * 64 + v(g + 4)) % 256]

\* JSON.parse(text) succeeds: text, a sequence of character codes, is one JSON
\* value between white space.  The operators below return the place after the
\* part they read, 0 when the text is no JSON there.
JsonWs == {32, 9, 10, 13}
\* The least place of lo..hi whose element is outside S, hi + 1 with none;
\* the greatest such place, lo - 1 with none
RECURSIVE FirstOutside(_, _, _, _)
FirstOutside(t, S, lo, hi) ==
  IF lo > hi THEN lo
  ELSE IF lo = hi THEN (IF t[lo] \in S THEN lo + 1 ELSE lo)
  ELSE LET m == (lo + hi) \div 2
           l == FirstOutside(t, S, lo, m)
       IN IF l <= m THEN l ELSE FirstOutside(t, S, m + 1, hi)
RECURSIVE LastOutside(_, _, _, _)
LastOutside(t, S, lo, hi) ==
  IF lo > hi THEN hi
  ELSE IF lo = hi THEN (IF t[lo] \in S THEN lo - 1 ELSE lo)
  ELSE LET m == (lo + hi) \div 2
           r == LastOutside(t, S, m + 1, hi)
       IN IF r > m THEN r ELSE LastOutside(t, S, lo, m)
SkipWs(t, i) == FirstOutside(t, JsonWs, i, Len(t))
SkipDigits(t, i) == FirstOutside(t, 48..57, i, Len(t))
IsHexCode(b) == b \in (48..57) \cup (65..70) \cup (97..102)
\* In a string that opens before place i: the backslash at k starts an escape,
\* the quote at k closes the string, when an even number of backslashes precede
JsonUnescaped(t, i, k) == (k - 1 - LastOutside(t, {92}, i, k - 1)) % 2 = 0
JsonStringClose(t, i) ==
  LET closes == [k \in 1..Len(t) |-> k >= i /\ t[k] = 34 /\ JsonUnescaped(t, i, k)]
  IN FirstOutside(closes, {FALSE}, i, Len(t))
\* i is the place after the opening quote
JsonStringEnd(t, i) ==
  LET j == JsonStringClose(t, i)
      EscapeOk(k) ==
        \/ t[k + 1] \in {34, 92, 47, 98, 102, 110, 114, 116}
        \/ t[k + 1] = 117 /\ k + 5 <= Len(t) /\ \A h \in 2..5 : IsHexCode(t[k + h])
  IN IF j > Len(t) THEN 0
     ELSE IF \A k \in i..(j - 1) :
               t[k] >= 32 /\ (t[k] = 92 /\ JsonUnescaped(t, i, k) => EscapeOk(k))
       THEN j + 1
     ELSE 0
JsonNumberEnd(t, i) ==
  LET a == IF i <= Len(t) /\ t[i] = 45 THEN i + 1 ELSE i
      b == IF a > Len(t) THEN 0
           ELSE IF t[a] = 48 THEN a + 1
           ELSE IF t[a] \in 49..57 THEN SkipDigits(t, a + 1) ELSE 0
      c == IF b = 0 THEN 0
           ELSE IF b <= Len(t) /\ t[b] = 46
             THEN (IF SkipDigits(t, b + 1) > b + 1 THEN SkipDigits(t, b + 1) ELSE 0)
           ELSE b
      e == IF c # 0 /\ c <= Len(t) /\ t[c] \in {69, 101}
           THEN (IF c + 1 <= Len(t) /\ t[c + 1] \in {43, 45} THEN c + 2 ELSE c + 1)
           ELSE 0
  IN IF c = 0 THEN 0
     ELSE IF e = 0 THEN c
     ELSE IF SkipDigits(t, e) > e THEN SkipDigits(t, e) ELSE 0
JsonLiteralEnd(t, i, word) ==
  IF i + Len(word) - 1 <= Len(t) /\ SubSeq(t, i, i + Len(word) - 1) = word
  THEN i + Len(word) ELSE 0
\* ss[lo] \o ... \o ss[hi]
RECURSIVE Flatten(_, _, _)
Flatten(ss, lo, hi) ==
  IF lo > hi THEN <<>>
  ELSE IF lo = hi THEN ss[lo]
  ELSE LET m == (lo + hi) \div 2 IN Flatten(ss, lo, m) \o Flatten(ss, m + 1, hi)
\* parts.join(sep)
JoinWith(parts, sep) ==
  Flatten([i \in 1..Len(parts) |-> IF i = 1 THEN parts[1] ELSE sep \o parts[i]],
          1, Len(parts))
Spaces(n) == [i \in 1..n |-> 32]

\* The code units of the JSON string whose text is t[i..j-1], between the quotes:
\* an escape stands for one code unit
JsonStringValue(t, i, j) ==
  LET starts == [k \in 1..(j - 1) |-> k >= i /\ t[k] = 92 /\ JsonUnescaped(t, i, k)]
      HexVal(c) == IF c <= 57 THEN c - 48 ELSE IF c <= 70 THEN c - 55 ELSE c - 87
      Escape(k) ==
        CASE t[k + 1] = 98 -> 8
          [] t[k + 1] = 102 -> 12
          [] t[k + 1] = 110 -> 10
          [] t[k + 1] = 114 -> 13
          [] t[k + 1] = 116 -> 9
          [] t[k + 1] = 117 ->
               4096 * HexVal(t[k + 2]) + 256 * HexVal(t[k + 3]) + 16 * HexVal(t[k + 4])
                 + HexVal(t[k + 5])
          [] OTHER -> t[k + 1]
      Inside(k) ==
        \/ k > i /\ starts[k - 1]
        \/ \E s \in (k - 5)..(k - 2) : s >= i /\ starts[s] /\ t[s + 1] = 117
      units == [k \in 1..(j - i) |->
                  LET p == i + k - 1
                  IN IF starts[p] THEN Escape(p) ELSE IF Inside(p) THEN -1 ELSE t[p]]
      Kept(u) == u >= 0
  IN SelectSeq(units, Kept)

\* QuoteJSONString(value) of JSON.stringify over the code units of a string
QuoteJSONString(u) ==
  LET HexChar(v) == IF v < 10 THEN 48 + v ELSE 87 + v
      Unicode(c) ==
        <<92, 117, HexChar(c \div 4096), HexChar((c \div 256) % 16),
          HexChar((c \div 16) % 16), HexChar(c % 16)>>
      Lead(c) == c \in 55296..56319
      Trail(c) == c \in 56320..57343
      Piece(k) ==
        LET c == u[k]
        IN CASE c = 8 -> <<92, 98>>
             [] c = 9 -> <<92, 116>>
             [] c = 10 -> <<92, 110>>
             [] c = 12 -> <<92, 102>>
             [] c = 13 -> <<92, 114>>
             [] c = 34 -> <<92, 34>>
             [] c = 92 -> <<92, 92>>
             [] c < 32 /\ c \notin {8, 9, 10, 12, 13} -> Unicode(c)
             [] Lead(c) -> IF k < Len(u) /\ Trail(u[k + 1]) THEN <<c>> ELSE Unicode(c)
             [] Trail(c) -> IF k > 1 /\ Lead(u[k - 1]) THEN <<c>> ELSE Unicode(c)
             [] OTHER -> <<c>>
  IN <<34>> \o Flatten([k \in 1..Len(u) |-> Piece(k)], 1, Len(u)) \o <<34>>

\* ---- Number::toString over decimal arithmetic.  A decimal is d, its digits
\* from the most significant one, of which the last f are its fraction.
Big(d, f) == [d |-> d, f |-> f]
BigZeros(n) == [i \in 1..n |-> 0]
\* s x 10^e of the digits s
BigOfDigits(s, e) == IF e >= 0 THEN Big(s \o BigZeros(e), 0) ELSE Big(s, 0 - e)
\* the digits of a with f fraction digits, n digits in all
BigDigits(a, f, n) ==
  LET r == a.d \o BigZeros(f - a.f) IN BigZeros(n - Len(r)) \o r
BigFrac(a, b) == IF a.f >= b.f THEN a.f ELSE b.f
BigWidth(a, b) ==
  LET f == BigFrac(a, b)
      m == Len(a.d) + f - a.f
      n == Len(b.d) + f - b.f
  IN IF m >= n THEN m ELSE n
\* -1, 0, 1 as a[lo..hi] is less than, equal to, greater than b[lo..hi]
RECURSIVE CmpDigits(_, _, _, _)
CmpDigits(a, b, lo, hi) ==
  IF lo > hi THEN 0
  ELSE IF lo = hi THEN (IF a[lo] < b[lo] THEN -1 ELSE IF a[lo] > b[lo] THEN 1 ELSE 0)
  ELSE LET m == (lo + hi) \div 2
           c == CmpDigits(a, b, lo, m)
       IN IF c # 0 THEN c ELSE CmpDigits(a, b, m + 1, hi)
\* a[lo..hi] + sg x (b[lo..hi] + c) for sg = 1 (sum) and sg = -1 (difference):
\* the digits and the carry out of place lo, first for the carry in c = 0, then
\* for c = 1
RECURSIVE SumDigits(_, _, _, _, _)
SumDigits(a, b, sg, lo, hi) ==
  LET One(c) == LET s == a[lo] + sg * (b[lo] + c)
                IN [d |-> <<s % 10>>, c |-> IF s < 0 \/ s > 9 THEN 1 ELSE 0]
      m == (lo + hi) \div 2
      l == SumDigits(a, b, sg, lo, m)
      r == SumDigits(a, b, sg, m + 1, hi)
      Both(c) == [d |-> l[r[c + 1].c + 1].d \o r[c + 1].d, c |-> l[r[c + 1].c + 1].c]
  IN IF lo > hi THEN <<[d |-> <<>>, c |-> 0], [d |-> <<>>, c |-> 1]>>
     ELSE IF lo = hi THEN <<One(0), One(1)>>
     ELSE <<Both(0), Both(1)>>
BigCmp(a, b) ==
  LET f == BigFrac(a, b)
      n == BigWidth(a, b)
  IN CmpDigits(BigDigits(a, f, n), BigDigits(b, f, n), 1, n)
BigAdd(a, b) ==
  LET f == BigFrac(a, b)
      n == BigWidth(a, b)
      r == SumDigits(BigDigits(a, f, n), BigDigits(b, f, n), 1, 1, n)[1]
  IN Big(<<r.c>> \o r.d, f)
\* a - b of a >= b
BigSub(a, b) ==
  LET f == BigFrac(a, b)
      n == BigWidth(a, b)
  IN Big(SumDigits(BigDigits(a, f, n), BigDigits(b, f, n), -1, 1, n)[1].d, f)
BigHalf(a) ==
  LET n == Len(a.d)
  IN Big(<<>> \o [i \in 1..(n + 1) |->
                   ((IF i <= n THEN a.d[i] ELSE 0)
                      + 10 * (IF i > 1 THEN a.d[i - 1] % 2 ELSE 0)) \div 2],
         a.f + 1)
BigDouble(a) ==
  LET n == Len(a.d)
  IN Big(<<>> \o [i \in 1..(n + 1) |->
                   ((IF i > 1 THEN 2 * a.d[i - 1] ELSE 0) % 10)
                     + (IF i <= n /\ a.d[i] >= 5 THEN 1 ELSE 0)],
         a.f)
\* a x 2^e
RECURSIVE BigScale2(_, _)
BigScale2(a, e) ==
  IF e = 0 THEN a
  ELSE IF e = 1 THEN BigDouble(a)
  ELSE IF e = -1 THEN BigHalf(a)
  ELSE LET h == e \div 2
           r == BigScale2(a, h)
       IN IF r.f >= 0 THEN BigScale2(r, e - h) ELSE r
\* the digits s and the exponent n of 0.s x 10^n = a, for a > 0: s starts at
\* the first digit of a that is not 0
BigNormal(a) ==
  LET z == FirstOutside(a.d, {0}, 1, Len(a.d)) - 1
  IN [s |-> SubSeq(a.d, z + 1, Len(a.d)), n |-> Len(a.d) - a.f - z]

\* The Number of a decimal v = 0.s x 10^n > 0 (round to nearest, ties to even):
\* p is the place of its leading bit, ulp the weight of its last bit
RECURSIVE LeadingBit(_, _, _)
LeadingBit(v, pw, p) ==
  LET w == BigDouble(pw)
  IN IF BigCmp(w, v) <= 0 THEN LeadingBit(v, w, p + 1) ELSE [pw |-> pw, p |-> p]
\* One more bit of the significand: rem is what is left of the decimal, pw the
\* weight of the bit before, odd the bit taken
NextBit(b) ==
  LET h == BigHalf(b.pw)
  IN IF BigCmp(b.rem, h) >= 0
     THEN [rem |-> BigSub(b.rem, h), pw |-> h, odd |-> TRUE]
     ELSE [rem |-> b.rem, pw |-> h, odd |-> FALSE]
RECURSIVE NextBits(_, _)
NextBits(b, n) ==
  IF n = 0 THEN b
  ELSE IF n = 1 THEN NextBit(b)
  ELSE LET r == NextBits(b, n \div 2)
       IN IF r.odd \in BOOLEAN THEN NextBits(r, n - n \div 2) ELSE r
\* x is the Number, low and high the ends of the decimals that round to it, which
\* round to it themselves when the significand is even.  lead is the leading
\* bit of v, bits what is left of v below the last bit, up whether the
\* significand is rounded up to x.
NumberOfSignificand(lead, bits, up, x) ==
  LET p == lead.p
      carried == up /\ BigCmp(x, BigDouble(lead.pw)) = 0
      power == carried \/ (~up /\ BigCmp(x, lead.pw) = 0)
      ex == IF carried THEN p + 1 ELSE p
      above == IF carried /\ p - 52 >= -1074 THEN BigDouble(bits.pw) ELSE bits.pw
      below == IF power /\ ex > -1022 THEN BigHalf(above) ELSE above
  IN IF p >= 1024 \/ (carried /\ p = 1023) THEN [kind |-> "Infinity"]
     ELSE IF ~up /\ bits.below THEN [kind |-> "zero"]
     ELSE [kind |-> "finite", x |-> x, even |-> (up = bits.odd),
           low |-> BigSub(x, BigHalf(below)), high |-> BigAdd(x, BigHalf(above))]
RoundSignificand(lead, bits, down, c) ==
  LET up == c > 0 \/ (c = 0 /\ bits.odd)
  IN NumberOfSignificand(lead, bits, up, IF up THEN BigAdd(down, bits.pw) ELSE down)
SignificandBits(v, lead, q) ==
  IF lead.p >= q
  THEN [below |-> FALSE] @@
       NextBits([rem |-> BigSub(v, lead.pw), pw |-> lead.pw, odd |-> TRUE], lead.p - q)
  ELSE [rem |-> v, pw |-> BigScale2(lead.pw, q - lead.p), odd |-> FALSE, below |-> TRUE]
NumberOfLeadingBit(v, lead, bits) ==
  RoundSignificand(lead, bits, BigSub(v, bits.rem), BigCmp(BigDouble(bits.rem), bits.pw))
NumberOfDecimal(v, lead) ==
  NumberOfLeadingBit(v, lead,
                     SignificandBits(v, lead, IF lead.p - 52 >= -1074 THEN lead.p - 52 ELSE -1074))
StringToNumber(s, n) ==
  LET v == BigOfDigits(s, n - Len(s))
      p0 == ((n - 1) * 3321928) \div 1000000 - 1
  IN NumberOfDecimal(v, LeadingBit(v, BigScale2(Big(<<1>>, 0), p0), p0))
\* The fewest digits s, with n, such that 0.s x 10^n rounds to the Number num,
\* and of these the nearest to it
RECURSIVE ShortestDigits(_, _, _)
ShortestDigits(num, X, k) ==
  LET pk == [i \in 1..k |-> IF i <= Len(X.s) THEN X.s[i] ELSE 0]
      inc == SumDigits(pk, BigZeros(k), 1, 1, k)[2]
      pu == IF inc.c = 1 THEN <<1>> \o inc.d ELSE inc.d
      lo == BigOfDigits(pk, X.n - k)
      hi == BigOfDigits(pu, X.n - k)
      cl == BigCmp(lo, num.low)
      ch == BigCmp(hi, num.high)
      okLo == cl > 0 \/ (cl = 0 /\ num.even)
      okHi == ch < 0 \/ (ch = 0 /\ num.even)
      near == BigCmp(BigSub(num.x, lo), BigSub(hi, num.x))
      Down == [s |-> pk, n |-> X.n]
      Up == [s |-> pu, n |-> X.n + inc.c]
  IN IF okLo /\ okHi
     THEN (IF near < 0 \/ (near = 0 /\ pk[k] % 2 = 0) THEN Down ELSE Up)
     ELSE IF okLo THEN Down
     ELSE IF okHi THEN Up
     ELSE ShortestDigits(num, X, k + 1)
\* the digits without the zeros at the end
TrimZeros(r) == [s |-> SubSeq(r.s, 1, LastOutside(r.s, {0}, 1, Len(r.s))), n |-> r.n]
\* Number::toString of 0.s x 10^n, s being the digits of the shortest decimal
RECURSIVE DecimalCodes(_)
DecimalCodes(m) ==
  IF m < 10 THEN <<48 + m>> ELSE DecimalCodes(m \div 10) \o <<48 + (m % 10)>>
NumberToString(s, n) ==
  LET k == Len(s)
      codes == [i \in 1..k |-> 48 + s[i]]
      e == n - 1
      exp == <<101, IF e < 0 THEN 45 ELSE 43>> \o DecimalCodes(IF e < 0 THEN 0 - e ELSE e)
  IN IF k <= n /\ n <= 21 THEN codes \o [i \in 1..(n - k) |-> 48]
     ELSE IF 0 < n /\ n <= 21 THEN SubSeq(codes, 1, n) \o <<46>> \o SubSeq(codes, n + 1, k)
     ELSE IF -6 < n /\ n <= 0 THEN <<48, 46>> \o [i \in 1..(0 - n) |-> 48] \o codes
     ELSE IF k = 1 THEN codes \o exp
     ELSE <<codes[1], 46>> \o SubSeq(codes, 2, k) \o exp
\* The number a run of at most 7 digits denotes
RECURSIVE DigitsValue(_)
DigitsValue(d) ==
  IF d = <<>> THEN 0 ELSE 10 * DigitsValue(SubSeq(d, 1, Len(d) - 1)) + d[Len(d)]
\* JSON.stringify(JSON.parse(text)) of the JSON number t[i..e-1]: the text is
\* read as the nearest Number, which is printed with the fewest digits that
\* read back as it.  A decimal of at most 15 digits within the normal range is
\* that shortest decimal itself.
ShortestText(sign, r) == sign \o NumberToString(r.s, r.n)
NumberText(sign, num) ==
  IF num.kind = "Infinity" THEN <<110, 117, 108, 108>>
  ELSE IF num.kind = "zero" THEN <<48>>
  ELSE ShortestText(sign, TrimZeros(ShortestDigits(num, BigNormal(num.x), 1)))
\* the decimal 0.s x 10^n, zero when it has no digit but 0
DecimalText(sign, s, n, zero) ==
  IF zero \/ n <= -324 THEN <<48>>
  ELSE IF n > 309 THEN <<110, 117, 108, 108>>
  ELSE IF Len(s) <= 15 /\ n >= -306 /\ n <= 308 THEN sign \o NumberToString(s, n)
  ELSE NumberText(sign, StringToNumber(s, n))
\* m are the digits before and after the point, w of them before it, and xd
\* the digits of the exponent xs
NumberPartsText(sign, m, w, xs, xd) ==
  LET z == FirstOutside(m, {0}, 1, Len(m)) - 1
      xz == FirstOutside(xd, {0}, 1, Len(xd))
      xv == IF Len(xd) - xz + 1 > 7 THEN 10000000 ELSE DigitsValue(SubSeq(xd, xz, Len(xd)))
  IN DecimalText(sign, SubSeq(m, z + 1, LastOutside(m, {0}, 1, Len(m))),
                 w - z + xs * xv, z = Len(m))
\* the digits of the number are t[a..b-1], after the point t[b+1..c-1], of the
\* exponent t[x..e-1]
NumberPlacesText(t, i, e, a, b, c, x) ==
  NumberPartsText(IF t[i] = 45 THEN <<45>> ELSE <<>>,
                  [k \in 1..(b - a) |-> t[a + k - 1] - 48]
                    \o [k \in 1..(c - b - 1) |-> t[b + k] - 48],
                  b - a,
                  IF c < e /\ t[c + 1] = 45 THEN -1 ELSE 1,
                  [k \in 1..(e - x) |-> t[x + k - 1] - 48])
NumberFractionText(t, i, e, a, b, c) ==
  NumberPlacesText(t, i, e, a, b, c,
                   IF c < e THEN (IF t[c + 1] \in {43, 45} THEN c + 2 ELSE c + 1) ELSE e)
NumberIntegerText(t, i, e, a, b) ==
  NumberFractionText(t, i, e, a, b, IF b < e /\ t[b] = 46 THEN SkipDigits(t, b + 1) ELSE b)
JsonNumberText(t, i, e) ==
  NumberIntegerText(t, i, e, i + (IF t[i] = 45 THEN 1 ELSE 0),
                    SkipDigits(t, i + (IF t[i] = 45 THEN 1 ELSE 0)))

\* An array index: the canonical decimal of an integer of 0..2^32 - 2
IsArrayIndex(k) ==
  /\ k # <<>>
  /\ \A i \in 1..Len(k) : k[i] \in 48..57
  /\ k = <<48>> \/ k[1] # 48
  /\ \/ Len(k) < 10
     \/ Len(k) = 10 /\ CmpDigits(k, <<52, 50, 57, 52, 57, 54, 55, 50, 57, 52>>, 1, 10) <= 0
\* The own property keys of the object JSON.parse builds of the members ms, in
\* the order JSON.stringify visits them: array indices in ascending order, then
\* the other names in the order they first appear; the value of a name that
\* appears more than once is the last one's.  The result is the places in ms of
\* the values to print.
JsonOwnKeys(ms) ==
  LET N == Len(ms)
      firsts == {i \in 1..N : \A j \in 1..(i - 1) : ms[j].key # ms[i].key}
      LastOf(i) == CHOOSE j \in 1..N :
                     ms[j].key = ms[i].key /\ \A l \in (j + 1)..N : ms[l].key # ms[i].key
      Before(a, b) ==
        IF IsArrayIndex(ms[a].key) /\ IsArrayIndex(ms[b].key)
        THEN \/ Len(ms[a].key) < Len(ms[b].key)
             \/ /\ Len(ms[a].key) = Len(ms[b].key)
                /\ CmpDigits(ms[a].key, ms[b].key, 1, Len(ms[a].key)) < 0
        ELSE IF IsArrayIndex(ms[a].key) THEN TRUE
        ELSE IF IsArrayIndex(ms[b].key) THEN FALSE
        ELSE a < b
  IN [r \in 1..Cardinality(firsts) |->
        LastOf(CHOOSE a \in firsts : Cardinality({b \in firsts : Before(b, a)}) = r - 1)]

\* JSON.parse(text) and JSON.stringify(value, null, 2) in one pass over the
\* text t, a token at a step.  at is the place read next, expect what may stand
\* there, stack the arrays and objects that are open, the innermost last, each
\* with what is printed of its elements (out) or members (key, out) so far, and
\* out the text printed of the whole value.
JsonStart ==
  [at |-> 1, expect |-> "value", stack |-> <<>>, out |-> <<>>, done |-> FALSE, ok |-> FALSE]
\* SyntaxError
JsonFail(st) == [st EXCEPT !.done = TRUE, !.ok = FALSE]
\* a value was read up to place e and is printed as v
JsonEmit(st, v, e) ==
  LET n == Len(st.stack)
  IN IF n = 0 THEN [st EXCEPT !.at = e, !.expect = "end", !.out = v]
     ELSE [st EXCEPT !.at = e, !.expect = "commaOrClose",
                     !.stack[n].parts = Append(@, [key |-> st.stack[n].key, out |-> v])]
\* SerializeJSONArray and SerializeJSONObject with the gap of 2 spaces, of a
\* value n - 1 arrays and objects deep
JsonNested(frame, n) ==
  LET keys == JsonOwnKeys(frame.parts)
      items == IF frame.open = 91
               THEN [k \in 1..Len(frame.parts) |-> frame.parts[k].out]
               ELSE [k \in 1..Len(keys) |->
                       QuoteJSONString(frame.parts[keys[k]].key) \o <<58, 32>>
                         \o frame.parts[keys[k]].out]
  IN IF frame.parts = <<>> THEN <<frame.open, frame.open + 2>>
     ELSE <<frame.open, 10>> \o Spaces(2 * n)
            \o JoinWith(items, <<44, 10>> \o Spaces(2 * n))
            \o <<10>> \o Spaces(2 * n - 2) \o <<frame.open + 2>>
\* the ] or } before place e closes the innermost array or object
JsonClose(st, e) ==
  LET n == Len(st.stack)
  IN JsonEmit([st EXCEPT !.stack = SubSeq(@, 1, n - 1)], JsonNested(st.stack[n], n), e)
\* a string starts at place i - 1 and ends before place s, if s is not 0
JsonStringToken(t, st, i, s) ==
  IF s = 0 THEN JsonFail(st)
  ELSE IF st.expect \in {"value", "valueOrClose"}
    THEN JsonEmit(st, QuoteJSONString(JsonStringValue(t, i, s - 1)), s)
  ELSE [st EXCEPT !.at = s, !.expect = "colon",
                  !.stack[Len(st.stack)].key = JsonStringValue(t, i, s - 1)]
\* true, false or null ends before place w, if w is not 0
JsonLiteralToken(st, word, w) == IF w = 0 THEN JsonFail(st) ELSE JsonEmit(st, word, w)
\* a number starts at place i and ends before place d, if d is not 0
JsonNumberToken(t, st, i, d) ==
  IF d = 0 THEN JsonFail(st) ELSE JsonEmit(st, JsonNumberText(t, i, d), d)
\* the token c at place i, which is not white space
JsonToken(t, st, i, c) ==
  LET n == Len(st.stack)
      value == st.expect \in {"value", "valueOrClose"}
      key == st.expect \in {"key", "keyOrClose"}
      closes == \/ c = 93 /\ st.expect = "valueOrClose"
                \/ c = 125 /\ st.expect = "keyOrClose"
                \/ st.expect = "commaOrClose" /\ c = st.stack[n].open + 2
  IN IF closes THEN JsonClose(st, i + 1)
     ELSE IF c = 34 /\ (value \/ key) THEN JsonStringToken(t, st, i + 1, JsonStringEnd(t, i + 1))
     ELSE IF key THEN JsonFail(st)
     ELSE IF value
       THEN IF c \in {91, 123}
              THEN [st EXCEPT !.at = i + 1,
                              !.expect = IF c = 91 THEN "valueOrClose" ELSE "keyOrClose",
                              !.stack = Append(@, [open |-> c, parts |-> <<>>, key |-> <<>>])]
            ELSE IF c = 116
              THEN JsonLiteralToken(st, <<116, 114, 117, 101>>,
                                    JsonLiteralEnd(t, i, <<116, 114, 117, 101>>))
            ELSE IF c = 102
              THEN JsonLiteralToken(st, <<102, 97, 108, 115, 101>>,
                                    JsonLiteralEnd(t, i, <<102, 97, 108, 115, 101>>))
            ELSE IF c = 110
              THEN JsonLiteralToken(st, <<110, 117, 108, 108>>,
                                    JsonLiteralEnd(t, i, <<110, 117, 108, 108>>))
            ELSE JsonNumberToken(t, st, i, JsonNumberEnd(t, i))
     ELSE IF st.expect = "colon"
       THEN IF c = 58 THEN [st EXCEPT !.at = i + 1, !.expect = "value"] ELSE JsonFail(st)
     ELSE IF c = 44
       THEN [st EXCEPT !.at = i + 1,
                       !.expect = IF st.stack[n].open = 91 THEN "value" ELSE "key"]
     ELSE JsonFail(st)
\* i is the place of the first character at or after st.at that is not white space
JsonTokenAt(t, st, i) ==
  IF st.expect = "end" THEN [st EXCEPT !.done = TRUE, !.ok = i > Len(t)]
  ELSE IF i > Len(t) THEN JsonFail(st)
  ELSE JsonToken(t, st, i, t[i])
JsonStep(t, st) == JsonTokenAt(t, st, SkipWs(t, st.at))
\* n steps, fewer when the text ends or fails before
RECURSIVE JsonSteps(_, _, _)
JsonSteps(t, st, n) ==
  IF st.done \/ n = 0 THEN st
  ELSE IF n = 1 THEN JsonStep(t, st)
  ELSE LET r == JsonSteps(t, st, n \div 2)
       IN IF r.done THEN r ELSE JsonSteps(t, r, n - n \div 2)
\* a text of n characters has at most n tokens
JsonRead(t) == JsonSteps(t, JsonStart, Len(t) + 1)
\* JSON.parse(text) returns
JsonValid(t) == JsonRead(t).ok
\* JSON.stringify(JSON.parse(text), null, 2) of a text JSON.parse accepts
JsonPretty(t) == JsonRead(t).out

\* Lines 98-101 of parseWk1 on the text after the prefix: rest, followed (body #
\* NoWk) by the base64url block of body.  The block's characters are of the
\* alphabet and decode to the JSON of body; the JSON text decoded is that JSON
\* after the bytes of rest when rest fills whole groups of 4, and no JSON when
\* rest shifts the block.  text is the JSON text of a value typed by hand.
DecodeWk1(rest, body) ==
  LET n == BlockLen(body)
      Kept(c) == c \notin AtobWhiteSpace
      std == [i \in 1..Len(rest) |->
                IF rest[i] = "-" THEN "+" ELSE IF rest[i] = "_" THEN "/" ELSE rest[i]]
      pad == SubSeq(<<"=", "=", "=">>, ((Len(rest) + n + 3) % 4) + 1, 3)
      b64 == std \o [i \in 1..n |-> "A"] \o pad
      typed == IF n = 0 THEN AtobData(b64) ELSE SelectSeq(std, Kept)
      bytes == AtobBytes(typed)
      Fail(msg, j) ==
        [ok |-> FALSE, error |-> msg, atob |-> TRUE, jsonParse |-> j, obj |-> NoWk,
         text |-> <<>>]
  IN IF ~AtobOk(b64)
     THEN Fail("The string to be decoded is not correctly encoded.", FALSE)
     ELSE IF n = 0
       THEN IF JsonValid(bytes)
            THEN [ok |-> TRUE, error |-> "", atob |-> TRUE, jsonParse |-> TRUE,
                  obj |-> NoWk, text |-> bytes]
            ELSE Fail("Unexpected token in JSON", TRUE)
     ELSE IF Len(typed) % 4 = 0 /\ \A i \in 1..Len(bytes) : bytes[i] \in JsonWs
       THEN [ok |-> TRUE, error |-> "", atob |-> TRUE, jsonParse |-> TRUE,
             obj |-> body, text |-> <<>>]
     ELSE Fail("Unexpected token in JSON", TRUE)

\* parseWk1(wrappedKey): the object, or the error thrown; atob and jsonParse tell
\* whether atob and JSON.parse were called.
ParseWk1NoPrefixTest(w) ==
  LET rest == IF StartsWith(w.chars, Wk1Prefix)
              THEN SubSeq(w.chars, Len(Wk1Prefix) + 1, Len(w.chars)) ELSE w.chars
      Fail(msg) ==
        [ok |-> FALSE, error |-> msg, atob |-> FALSE, jsonParse |-> FALSE, obj |-> NoWk,
         text |-> <<>>]
  IN IF w.kind # "string" THEN Fail("wrappedKey must be a string")
     ELSE DecodeWk1(rest, w.body)
ParseWk1(w) ==
  LET rest == SubSeq(w.chars, Len(Wk1Prefix) + 1, Len(w.chars))
      Fail(msg) ==
        [ok |-> FALSE, error |-> msg, atob |-> FALSE, jsonParse |-> FALSE, obj |-> NoWk,
         text |-> <<>>]
  IN IF w.kind # "string" THEN Fail("wrappedKey must be a string")
     ELSE IF ~StartsWith(w.chars, Wk1Prefix)
       THEN Fail("Not a wk1 key (expected prefix pxp201:wk1:)")
     ELSE DecodeWk1(rest, w.body)

\* ------------------------------------------------------------ lib/format.js
\* Text is the sequence of its characters.
HexDigits == <<"0", "1", "2", "3", "4", "5", "6", "7", "8", "9", "a", "b", "c", "d", "e", "f">>
UpperHexDigits == <<"0", "1", "2", "3", "4", "5", "6", "7", "8", "9", "A", "B", "C", "D", "E", "F">>
HexPrefix == <<"0", "x">>

\* b.toString(16) of a byte: one or two lowercase digits
ToString16(b) ==
  IF b < 16 THEN <<HexDigits[b + 1]>> ELSE <<HexDigits[(b \div 16) + 1], HexDigits[(b % 16) + 1]>>
\* s.padStart(2, "0")
PadStart2None(s) == s
PadStart2(s) == IF Len(s) < 2 THEN <<"0">> \o s ELSE s

\* "0x" + Array.from(u8).map((b) => b.toString(16).padStart(2, "0")).join("")
RECURSIVE JoinDigits(_)
JoinDigits(u8) ==
  IF u8 = <<>> THEN <<>> ELSE PadStart2(ToString16(Head(u8))) \o JoinDigits(Tail(u8))
U8ToHex(u8) == HexPrefix \o JoinDigits(u8)

\* The value of a hex digit of either case, -1 for any other character
DigitValue(c) ==
  IF \E v \in 1..16 : HexDigits[v] = c \/ UpperHexDigits[v] = c
  THEN (CHOOSE v \in 1..16 : HexDigits[v] = c \/ UpperHexDigits[v] = c) - 1
  ELSE -1
\* The white space parseInt skips (WhiteSpace and LineTerminator of ECMAScript).
\* A character that a string of this module cannot hold is named by its code
\* point: one element of a text stands for one character.
StrWhiteSpace ==
  {" ", "\t", "\n", "\f", "\r", "U+000B", "U+00A0", "U+FEFF", "U+2028", "U+2029",
   "U+1680", "U+2000", "U+2001", "U+2002", "U+2003", "U+2004", "U+2005", "U+2006",
   "U+2007", "U+2008", "U+2009", "U+200A", "U+202F", "U+205F", "U+3000"}
RECURSIVE TrimStart(_)
TrimStart(s) == IF s # <<>> /\ Head(s) \in StrWhiteSpace THEN TrimStart(Tail(s)) ELSE s
\* The length of the longest prefix of hex digits, and the number it denotes
RECURSIVE HexRunLen(_)
HexRunLen(s) == IF s = <<>> \/ DigitValue(Head(s)) < 0 THEN 0 ELSE 1 + HexRunLen(Tail(s))
RECURSIVE HexValue(_)
HexValue(s) ==
  IF s = <<>> THEN 0
  ELSE 16 * HexValue(SubSeq(s, 1, Len(s) - 1)) + DigitValue(s[Len(s)])
\* out[i] = parseInt(pair, 16): leading white space is skipped, then a sign and
\* a "0x" are read, then the longest run of hex digits; with no digit the result
\* is NaN.  The Uint8Array stores NaN as 0 and any other number modulo 256.
ParseInt16(pair) ==
  LET t == TrimStart(pair)
      signed == t # <<>> /\ Head(t) \in {"+", "-"}
      u == IF signed THEN Tail(t) ELSE t
      v == IF Len(u) >= 2 /\ u[1] = "0" /\ u[2] \in {"x", "X"} THEN SubSeq(u, 3, Len(u)) ELSE u
      k == HexRunLen(v)
      n == HexValue(SubSeq(v, 1, k))
  IN IF k = 0 THEN 0
     ELSE IF signed /\ Head(t) = "-" THEN (0 - n) % 256 ELSE n % 256

\* hexToU8(hex): the bytes, or the error thrown
HexToU8(hex) ==
  LET h == IF StartsWith(hex, HexPrefix) THEN SubSeq(hex, 3, Len(hex)) ELSE hex
  IN IF Len(h) % 2 # 0
     THEN [ok |-> FALSE, bytes |-> <<>>, error |-> "Invalid hex length"]
     ELSE [ok |-> TRUE, error |-> "",
           bytes |-> [i \in 1..(Len(h) \div 2) |-> ParseInt16(SubSeq(h, 2 * i - 1, 2 * i))]]

\* No codec call so far: no argument, no result
NoHexResult == [done |-> FALSE, ok |-> FALSE, bytes |-> <<>>, error |-> ""]
NoHexText == [present |-> FALSE, chars |-> <<>>]
CodecIdle == [src |-> "", bytes |-> <<>>, text |-> NoHexText, bare |-> FALSE, dec |-> NoHexResult]

\* The parsed box: "" or JSON.stringify(obj, null, 2) of the value parseWk1
\* returned (ret).  The text printed of a key the SDK wrapped is told by obj,
\* the object printed; of any other key it is text, the characters printed.
NoParsed == [present |-> FALSE, obj |-> NoWk, text |-> <<>>]
Parsed(ret) ==
  [present |-> TRUE, obj |-> ret.obj,
   text |-> IF ret.text = <<>> THEN <<>> ELSE JsonPretty(ret.text)]

\* A string of its characters, and the characters of a string
RECURSIVE JoinChars(_)
JoinChars(cs) == IF cs = <<>> THEN "" ELSE Head(cs) \o JoinChars(Tail(cs))
CharsOf(str) == [i \in 1..Len(str) |-> SubSeq(str, i, i)]
\* The DEK a 32-byte value is, and back: the SDK's DEKs are byte arrays.  The
\* DEKs the SDK draws are dek1 and dek2; any other value is named by its hex text.
DekBytes(dek) ==
  CASE dek = "dek1" -> [i \in 1..32 |-> 17]
    [] dek = "dek2" -> [i \in 1..32 |-> 34]
    [] OTHER -> HexToU8(CharsOf(dek)).bytes
DekOfBytes(bytes) ==
  IF \E d \in Deks : DekBytes(d) = bytes
  THEN CHOOSE d \in Deks : DekBytes(d) = bytes ELSE JoinChars(U8ToHex(bytes))

\* {dekHex: "", error: ""}; the hex texts of the panel are character sequences
WkEmptyOut == [dekHex |-> <<>>, error |-> ""]
WkErrorOut(msg) == [dekHex |-> <<>>, error |-> ErrString(msg)]

\* WK1Panel's useState defaults
Wk1Defaults ==
  [wrappedKey |-> WkStr(<<>>, NoWk), privHex |-> "", aadText |-> DefaultAad,
   parsed |-> NoParsed, out |-> WkEmptyOut,
   dekHexIn |-> <<>>, pubHex |-> "", kid |-> GenRid, selectedRid |-> ""]

\* The effect on [bundleInput]: select the first rid when none is selected
WkSyncEffect(text, sel) ==
  LET p == JSONParseOrEmpty(text)
  IN IF p.ok /\ Falsy(sel) /\ Truthy(FirstRid(p.doc.envelope))
     THEN FirstRid(p.doc.envelope) ELSE sel

\* WK1Panel mounted over the bundle text
Wk1Mounted(text) == [Wk1Defaults EXCEPT !.selectedRid = WkSyncEffect(text, "")]

HWkInit ==
  [called |-> FALSE, arg |-> WkStr(<<>>, NoWk),
   ret |-> [ok |-> FALSE, error |-> "", atob |-> FALSE, jsonParse |-> FALSE, obj |-> NoWk,
           text |-> <<>>],
   edits |-> 0, ops |-> 0]
\* h after a call parseWk1(w)
HWkCall(h, w) == [h EXCEPT !.called = TRUE, !.arg = w, !.ret = ParseWk1(w)]

\* fillFromBundle: the panel state it leaves
FillFromBundle(text, st) ==
  LET p == JSONParseOrEmpty(text)
      b == p.doc
      recips == RecipsOf(b.envelope)
      st1 == IF b.aadText # Undef THEN [st EXCEPT !.aadText = OrElse(b.aadText, "")] ELSE st
      ridToUse == OrElse(st.selectedRid, FirstRid(b.envelope))
      entry == FindEntry(recips, ridToUse)
      priv == MapLookup(b.recipientPrivHexByRid, entry.rid)
      pub == MapLookup(b.recipientPubHexByRid, entry.rid)
      w == WkOfField(entry.wrappedKey)
  IN IF ~p.ok THEN st
     ELSE IF Len(recips) > 0
       THEN [st1 EXCEPT
               !.wrappedKey = IF entry.wrappedKey # NoWk THEN w ELSE @,
               !.kid = IF Truthy(entry.rid) THEN entry.rid ELSE @,
               !.privHex = IF Truthy(priv) THEN SetStateValue(priv, @) ELSE @,
               !.pubHex = IF Truthy(pub) THEN SetStateValue(pub, @) ELSE @,
               !.parsed = IF entry.wrappedKey # NoWk /\ ParseWk1(w).ok
                          THEN Parsed(ParseWk1(w)) ELSE @]
     ELSE [st1 EXCEPT
             !.wrappedKey = IF b.wrappedKey # NoWk THEN WkOfField(b.wrappedKey) ELSE @,
             !.privHex = IF Truthy(b.recipient.recipientPrivHex)
                         THEN b.recipient.recipientPrivHex ELSE @,
             !.pubHex = IF Truthy(b.recipient.recipientPubHex)
                        THEN b.recipient.recipientPubHex ELSE @,
             !.kid = IF Truthy(b.recipient.rid) THEN b.recipient.rid ELSE @,
             !.dekHexIn = IF b.raw.dekHex # <<>> THEN b.raw.dekHex
                          ELSE IF b.dekHex # <<>> THEN b.dekHex ELSE @]

\* fillFromBundle handed setPrivHex or setPubHex a function that throws as an
\* updater: the next render throws, and with no error boundary React unmounts
\* the App
FillCrashes(text) ==
  LET p == JSONParseOrEmpty(text)
      b == p.doc
      recips == RecipsOf(b.envelope)
      entry == FindEntry(recips, OrElse(wk1.selectedRid, FirstRid(b.envelope)))
      priv == MapLookup(b.recipientPrivHexByRid, entry.rid)
      pub == MapLookup(b.recipientPubHexByRid, entry.rid)
  IN p.ok /\ Len(recips) > 0
     /\ (SetStateThrows(priv, wk1.privHex) \/ SetStateThrows(pub, wk1.pubHex))

\* A doUnwrap or doWrap call suspended at an await, with the values of the render
\* whose button was clicked; live is FALSE once the panel is unmounted
WkRun(n, kind, stage, st) ==
  [n |-> n, kind |-> kind, stage |-> stage, live |-> TRUE,
   wk |-> st.wrappedKey.body, priv |-> st.privHex, aad |-> st.aadText,
   pub |-> st.pubHex, kid |-> st.kid, dek |-> Undef]
WkDetach(runs) == {[r EXCEPT !.live = FALSE] : r \in runs}

\* doUnwrap and doWrap, from their first statement to their first await: the
\* error they throw, or "" when they reach the await
UnwrapSync(st) ==
  IF ~WkTruthy(st.wrappedKey) THEN "wrappedKey required"
  ELSE IF Falsy(st.privHex) THEN "recipientPrivHex required"
  ELSE IF ~ParseWk1(st.wrappedKey).ok THEN ParseWk1(st.wrappedKey).error
  ELSE ""
WrapSync(st) ==
  LET dek == HexToU8(st.dekHexIn)
  IN IF st.dekHexIn = <<>> THEN "dekHex required (0x.. 32 bytes)"
     ELSE IF Falsy(st.pubHex) THEN "recipientPubHex required"
     ELSE IF Falsy(st.kid) THEN "kid required"
     ELSE IF Falsy(st.privHex)
       THEN "recipientPrivHex required for auto-sanity unwrap (optional)"
     ELSE IF ~dek.ok THEN dek.error
     ELSE IF Len(dek.bytes) # 32 THEN "DEK must be 32 bytes (64 hex chars)"
     ELSE ""

\* ------------------------------------------------------------ EncryptPanel
DefaultPlaintext == "hello from PXP-201"

\* EncryptPanel's useState defaults
EncDefaults ==
  [plaintext |-> DefaultPlaintext, aadText |-> DefaultAad,
   recipients |-> <<[rid |-> DefaultRid, recipientPrivHex |-> "", recipientPubHex |-> ""]>>,
   rawOut |-> NoRawOut, wrappedKey |-> NoWk, envelope |-> NoEnvelope, decryptCheck |-> ""]

\* r.recipientPrivHex && r.recipientPubHex
HasKeys(r) == Truthy(r.recipientPrivHex) /\ Truthy(r.recipientPubHex)

\* recipients.map((_, i) => ensureRecipientAt(i)) over the list L of the calling
\* render, with `drawn` keys drawn before: ready is the list it returns; every
\* call that draws a key pair does setRecipients(L with that one index filled),
\* so the last such call decides the state: set tells whether one was made,
\* next is its argument, used the number of key pairs drawn.
EnsureAll(L, drawn) ==
  LET missing == {i \in 1..Len(L) : ~HasKeys(L[i])}
      rank(i) == Cardinality({j \in missing : j <= i})
      ready == [i \in 1..Len(L) |->
                  IF i \in missing
                  THEN [L[i] EXCEPT !.recipientPrivHex = KeyPool[drawn + rank(i)],
                                    !.recipientPubHex = PubOf(KeyPool[drawn + rank(i)])]
                  ELSE L[i]]
      last == CHOOSE i \in missing : \A j \in missing : j <= i
  IN [ready |-> ready, set |-> missing # {},
      next |-> IF missing = {} THEN L ELSE [L EXCEPT ![last] = ready[last]],
      used |-> Cardinality(missing)]

\* recipReady.map(async (r) => ({rid: r.rid, wrappedKey: await wrapDEK_secp256k1(...)}))
WrapEntries(ready, raw, aadText) ==
  [i \in 1..Len(ready) |->
     [rid |-> ready[i].rid,
      wrappedKey |-> SdkWrap(raw.dek, ready[i].recipientPubHex, ready[i].rid, SdkAad(aadText))]]

\* A runEncrypt call suspended at its await of encryptTextRaw, with the
\* plaintext, AAD and recipient list of the render whose button was clicked
EncRun(n, st) ==
  [n |-> n, stage |-> "encrypt", live |-> TRUE, plaintext |-> st.plaintext,
   aadText |-> st.aadText, recipients |-> st.recipients,
   raw |-> NoRawOut, ready |-> <<>>, entries |-> <<>>, dek |-> Undef]
EncDetach(runs) == {[r EXCEPT !.live = FALSE] : r \in runs}

HEncInit ==
  [starts |-> <<>>, drawn |-> 0, setBy |-> 0, ready |-> <<>>, raw |-> NoRawOut,
   edited |-> FALSE, edits |-> 0, file |-> [made |-> FALSE, clean |-> FALSE, plaintext |-> "", aadText |-> ""]]

EncMount ==
  /\ enc = EncDefaults
  /\ encRuns = {}
  /\ hEnc = HEncInit
  /\ bundleFile = EmptyText

\* ---- Mounting and unmounting (App renders the panel of the active tab only)

HDecInit ==
  [started |-> 0, ids |-> {}, dup |-> FALSE, clears |-> 0, cleared |-> FALSE, lastId |-> 0, lastDone |-> FALSE,
   lastOut |-> EmptyOut, stale |-> {}, onFile |-> FALSE,
   sync |-> [noRecips |-> FALSE, rawOk |-> FALSE, ok |-> FALSE, calls |-> <<>>],
   burst |-> 0, autoRuns |-> 0, fireAge |-> -1, fireBurst |-> 0, fireAuto |-> FALSE]

\* DecryptPanel as it mounts over the shared bundle text: its useState defaults,
\* then its two effects
DecMount(text) ==
  /\ out = EmptyOut
  /\ aadOverride = SyncEffect(text, "", DefaultAad).aad
  /\ autoDecrypt = FALSE
  /\ selectedRid = SyncEffect(text, "", DefaultAad).sel
  /\ runIdRef = 0
  /\ timers = {}
  /\ decRuns = {}
  /\ age = DebounceTicks
  /\ hDec = HDecInit

\* The same, as the state a render of <DecryptPanel> leaves when the tab opens
DecMountNext(text, runs, h) ==
  /\ out' = EmptyOut
  /\ aadOverride' = SyncEffect(text, "", DefaultAad).aad
  /\ autoDecrypt' = FALSE
  /\ selectedRid' = SyncEffect(text, "", DefaultAad).sel
  /\ runIdRef' = 0
  /\ timers' = {}
  /\ decRuns' = runs
  /\ age' = DebounceTicks
  /\ hDec' = h

\* Runs that outlive their panel keep the ref of the mount they started in
DecDetach(runs) ==
  {[r EXCEPT !.det = IF @ # "" THEN @ ELSE IF r.id # runIdRef THEN "stale" ELSE "current"]
     : r \in runs}

HVecInit ==
  [n |-> 0, resIdeal |-> FALSE, autoImported |-> FALSE,
   export |-> [made |-> FALSE, by |-> "", incl |-> FALSE, of |-> NoVector, text |-> NoFile],
   sync |-> [noRecips |-> FALSE, rawOk |-> FALSE, topWrappedKey |-> FALSE, ok |-> FALSE,
             calls |-> <<>>]]

\* VectorsPanel's useState defaults
VecMount ==
  /\ res = NoRes
  /\ includePriv = FALSE
  /\ importJson = EmptyText
  /\ autoRunAfterImport = TRUE
  /\ vecRuns = {}
  /\ hVec = HVecInit
VecMountNext(runs, h) ==
  /\ res' = NoRes
  /\ includePriv' = FALSE
  /\ importJson' = EmptyText
  /\ autoRunAfterImport' = TRUE
  /\ vecRuns' = runs
  /\ hVec' = [h EXCEPT !.resIdeal = FALSE]
VecDetach(runs) == {[r EXCEPT !.live = FALSE] : r \in runs}

\* setTab(t) with t # tab: the old panel unmounts (its state is gone, the timer
\* effect's cleanup runs, its suspended handlers go on), the new one mounts over
\* the bundle text.  druns, vruns, h: decRuns, vecRuns and hVec as the handler
\* that switches leaves them.
SwitchTab(t, text, druns, vruns, h) ==
  /\ tab' = t
  /\ DecMountNext(IF t = "decrypt" THEN text ELSE EmptyText,
                  IF tab = "decrypt" THEN DecDetach(druns) ELSE druns,
                  IF t = "decrypt" THEN HDecInit ELSE hDec)
  /\ VecMountNext(IF tab = "vectors" THEN VecDetach(vruns) ELSE vruns, h)
  /\ wk1' = Wk1Mounted(IF t = "wk1" THEN text ELSE EmptyText)
  /\ hWk' = hWk
  /\ wkRuns' = IF tab = "wk1" THEN WkDetach(wkRuns) ELSE wkRuns
  /\ enc' = EncDefaults
  /\ encRuns' = IF tab = "encrypt" THEN EncDetach(encRuns) ELSE encRuns
  /\ UNCHANGED <<hEnc, bundleFile>>

\* A render of WK1Panel threw: with no error boundary React unmounts the whole
\* App, tab buttons included; handlers suspended at an await go on.  h: hWk as
\* the handler before that render leaves it.
AppCrash(h) ==
  /\ tab' = "crashed"
  /\ DecMountNext(EmptyText, decRuns, hDec)
  /\ VecMountNext(vecRuns, hVec)
  /\ wk1' = Wk1Mounted(EmptyText)
  /\ hWk' = h
  /\ wkRuns' = WkDetach(wkRuns)
  /\ enc' = EncDefaults
  /\ UNCHANGED <<encRuns, hEnc, bundleFile>>
  /\ uncaught' = uncaught \cup {"render"}

\* ---- VectorsPanel: the handlers


\* A handler of VectorsPanel suspended at an await: kind is the handler, stage
\* the call awaited; live is FALSE once the panel it belongs to is unmounted;
\* ideal tells that every SDK call it made so far behaved as the SDK's contract.
VecRun(n, kind, stage) ==
  [n |-> n, kind |-> kind, stage |-> stage, live |-> TRUE, ideal |-> TRUE,
   text |-> EmptyText, priv |-> Undef, raw |-> NoRawOut, wk |-> NoWk, dek |-> Undef,
   file |-> NoFile, autoRun |-> FALSE, calls |-> <<>>]

\* The end of runGenerate or runFromBundle: setRes (of a mounted panel) and onStatus
VecFinish(r, newRes, st, ideal) ==
  /\ vecRuns' = vecRuns \ {r}
  /\ res' = IF r.live THEN newRes ELSE res
  /\ status' = VecOnStatus(status, st)
  /\ hVec' = IF r.live THEN [hVec EXCEPT !.resIdeal = ideal] ELSE hVec

\* onClick of "Run self-test (generate)", up to the await of encryptTextRaw
VecClickGenerate(privs, maxOps, maxPending) ==
  \E priv \in privs :
    /\ tab = "vectors"
    /\ hVec.n < maxOps
    /\ Cardinality(vecRuns) < maxPending
    /\ status' = VecOnStatus(status, "running")
    /\ res' = NoRes
    /\ vecRuns' = vecRuns \cup {[VecRun(hVec.n + 1, "generate", "encrypt") EXCEPT !.priv = priv]}
    /\ hVec' = [hVec EXCEPT !.n = @ + 1, !.resIdeal = FALSE]
    /\ UNCHANGED <<tab, bundleInput, notVecVars, includePriv, importJson, autoRunAfterImport, uncaught, codec>>

\* encryptTextRaw returns to runGenerate, which calls wrapDEK_secp256k1
VecEncryptReturns(faults, deks) ==
  \E r \in vecRuns, fault \in {""} \cup faults, dek \in deks :
    /\ r.stage = "encrypt"
    /\ IF fault = ""
       THEN /\ vecRuns' = (vecRuns \ {r}) \cup
                            {[r EXCEPT !.stage = "wrap",
                                       !.raw = SdkEncrypt(GenPlaintext, GenAad, dek, "n1")]}
            /\ UNCHANGED <<res, status, hVec>>
       ELSE /\ dek = CHOOSE d \in deks : TRUE
            /\ VecFinish(r, FailRes("generate", ErrString(fault)), "error", FALSE)
    /\ UNCHANGED <<tab, bundleInput, notVecVars, includePriv, importJson, autoRunAfterImport, uncaught, codec>>

\* wrapDEK_secp256k1 returns to runGenerate, which builds and validates the
\* envelope and calls unwrapDEK_secp256k1
VecWrapReturns(faults) ==
  \E r \in vecRuns, fault \in {""} \cup faults :
    /\ r.stage = "wrap"
    /\ IF fault = ""
       THEN /\ vecRuns' = (vecRuns \ {r}) \cup
                            {[r EXCEPT !.stage = "unwrap",
                                       !.wk = SdkWrap(r.raw.dek, PubOf(r.priv), GenRid, GenAad)]}
            /\ UNCHANGED <<res, status, hVec>>
       ELSE VecFinish(r, FailRes("generate", ErrString(fault)), "error", FALSE)
    /\ UNCHANGED <<tab, bundleInput, notVecVars, includePriv, importJson, autoRunAfterImport, uncaught, codec>>

\* onClick of "Run from Bundle JSON" (disabled while the bundle text is empty),
\* up to the await of unwrapDEK_secp256k1 or to the end of the catch
VecClickRunFromBundle(maxOps, maxPending) ==
  LET s == VecBundleSync(bundleInput)
      b == JSONParseOrEmpty(bundleInput).doc
      noRecips == b.envelope.present /\ (b.envelope.recipientsKind # "array"
                                         \/ Len(b.envelope.recipients) = 0)
      h == [hVec EXCEPT !.n = @ + 1, !.resIdeal = FALSE,
                        !.sync = [noRecips |-> noRecips,
                                  rawOk |-> b.raw.ciphertextB64url # NoCt
                                            /\ Truthy(b.raw.nonceB64url),
                                  topWrappedKey |-> b.wrappedKey # NoWk,
                                  ok |-> s.ok, calls |-> s.calls]]
  IN /\ tab = "vectors"
     /\ bundleInput.kind # "empty"
     /\ hVec.n < maxOps
     /\ s.ok => Cardinality(vecRuns) < maxPending
     /\ hVec' = h
     /\ IF s.ok
        THEN /\ status' = VecOnStatus(status, "running")
             /\ res' = NoRes
             /\ vecRuns' = vecRuns \cup
                             {[VecRun(hVec.n + 1, "bundle", "unwrap") EXCEPT
                                 !.text = bundleInput, !.calls = s.calls,
                                 !.wk = s.wk, !.priv = s.priv]}
        ELSE /\ status' = VecOnStatus(status, "error")
             /\ res' = FailRes("bundle", s.error)
             /\ UNCHANGED vecRuns
     /\ UNCHANGED <<tab, bundleInput, notVecVars, includePriv, importJson, autoRunAfterImport, uncaught, codec>>

\* unwrapDEK_secp256k1 returns to runGenerate or runFromBundle, which calls
\* decryptTextFromEnvelope
VecUnwrapReturns(faults) ==
  \E r \in vecRuns, fault \in {""} \cup faults :
    LET s == VecBundleSync(r.text)
        ret == IF fault # "" THEN [ok |-> FALSE, dek |-> Undef, error |-> fault]
               ELSE IF r.kind = "generate" THEN SdkUnwrap(r.wk, r.priv, GenAad)
               ELSE SdkUnwrap(s.wk, s.priv, SdkAad(s.aad))
    IN /\ r.stage = "unwrap"
       /\ IF ret.ok
          THEN /\ vecRuns' = (vecRuns \ {r}) \cup
                               {[r EXCEPT !.stage = "decrypt", !.dek = ret.dek,
                                          !.calls = Append(@, "decryptTextFromEnvelope")]}
               /\ UNCHANGED <<res, status, hVec>>
          ELSE VecFinish(r, FailRes(r.kind, ErrString(ret.error)), "error",
                         r.kind = "generate" /\ r.ideal /\ fault = "")
       /\ UNCHANGED <<tab, bundleInput, notVecVars, includePriv, importJson, autoRunAfterImport, uncaught, codec>>

\* decryptTextFromEnvelope returns to runGenerate or runFromBundle: the plaintext
\* of the contract, a rejection, or (an SDK off its contract) another text
VecDecryptReturns(faults, wrongTexts) ==
  \E r \in vecRuns, fault \in {""} \cup faults, wrong \in {""} \cup wrongTexts :
    LET b == JSONParseOrEmpty(r.text).doc
        s == VecBundleSync(r.text)
        env == MkEnvelope(r.raw, <<[rid |-> GenRid, wrappedKey |-> r.wk]>>)
        ideal == IF r.kind = "generate"
                 THEN SdkDecrypt(env, r.dek, r.raw.ciphertextB64url, r.raw.nonceB64url, GenAad)
                 ELSE SdkDecrypt(b.envelope, r.dek, b.raw.ciphertextB64url,
                                 b.raw.nonceB64url, SdkAad(s.aad))
        ret == IF fault # "" THEN [ok |-> FALSE, plaintext |-> "", error |-> fault]
               ELSE IF wrong # "" THEN [ok |-> TRUE, plaintext |-> wrong, error |-> ""]
               ELSE ideal
    IN /\ r.stage = "decrypt"
       /\ fault # "" => wrong = ""
       /\ IF ~ret.ok
          THEN VecFinish(r, FailRes(r.kind, ErrString(ret.error)), "error",
                         r.kind = "generate" /\ r.ideal /\ fault = "")
          ELSE IF r.kind = "generate"
            THEN VecFinish(r, VecGenRes(r.priv, r.raw, r.wk, env, ret.plaintext), "ok",
                           r.ideal /\ wrong = "")
          ELSE VecFinish(r, VecBundleRes(r.text, ret.plaintext), "ok", FALSE)
       /\ UNCHANGED <<tab, bundleInput, notVecVars, includePriv, importJson, autoRunAfterImport, uncaught, codec>>

\* onChange of the two checkboxes
VecSetIncludePriv ==
  /\ tab = "vectors"
  /\ includePriv' = ~includePriv
  /\ UNCHANGED <<appVars, notVecVars, res, importJson, autoRunAfterImport, vecRuns, hVec, uncaught, codec>>
VecSetAutoRunAfterImport ==
  /\ tab = "vectors"
  /\ autoRunAfterImport' = ~autoRunAfterImport
  /\ UNCHANGED <<appVars, notVecVars, res, importJson, includePriv, vecRuns, hVec, uncaught, codec>>

\* the export that leaves the private key in whatever the checkbox says
VectorFileKeepsPriv(generated, incl) == [kind |-> "json", v |-> generated]

\* The vector the "Download vector JSON" / "Copy vector JSON" buttons serialize
VectorFile(generated, incl) ==
  [kind |-> "json",
   v |-> IF incl THEN generated ELSE [generated EXCEPT !.recipientPrivHex = Undef]]

\* The value of the "Generated vector (debug)" block
HiddenPriv == "<hidden (toggle include demo privkey)>"
GeneratedDisplay(generated, incl) ==
  [kind |-> "json",
   v |-> IF incl THEN generated ELSE [generated EXCEPT !.recipientPrivHex = HiddenPriv]]

\* onClick of "Download vector JSON" and of "Copy vector JSON": the text handed
\* to downloadText, to copyToClipboard
VecExport(by) ==
  /\ tab = "vectors"
  /\ res.generated.present
  /\ hVec' = [hVec EXCEPT !.export = [made |-> TRUE, by |-> by, incl |-> includePriv,
                                      of |-> res.generated,
                                      text |-> VectorFile(res.generated, includePriv)]]
  /\ hVec' # hVec
  /\ UNCHANGED <<appVars, notVecVars, res, includePriv, importJson, autoRunAfterImport,
                 vecRuns, uncaught, codec>>
VecDownloadVector == VecExport("download")
VecCopyVector == VecExport("copy")

\* onChange of the file input: importVectorFile(file) up to its await of
\* file.text(); with no file (NoFile: e.target.files?.[0] of an empty selection)
\* it returns at once
VecImportStart(files, maxOps, maxPending) ==
  \E f \in files \cup {NoFile} \cup (IF res.generated.present
                                     THEN {VectorFile(res.generated, includePriv)} ELSE {}) :
    /\ tab = "vectors"
    /\ hVec.n < maxOps
    /\ Cardinality(vecRuns) < maxPending
    /\ IF f = NoFile
       THEN UNCHANGED vars
       ELSE /\ vecRuns' = vecRuns \cup {[VecRun(hVec.n + 1, "import", "read") EXCEPT
                                          !.file = f, !.autoRun = autoRunAfterImport]}
            /\ hVec' = [hVec EXCEPT !.n = @ + 1]
            /\ UNCHANGED <<appVars, notVecVars, res, includePriv, importJson,
                           autoRunAfterImport, uncaught, codec>>

\* file.text() settles.  Its rejection is outside the try block: nothing catches
\* it.  Otherwise the try block runs: on success the bundle text is stored and
\* the Decrypt tab opens, on failure the error is stored.  setBundleInput,
\* setTab and setStatus of an unmounted App do nothing.
VecImportReadReturns ==
  \E r \in vecRuns :
    LET p == ImportParse(r.file)
        bundleStr == JSONStringify(p.bundle)
        h == [hVec EXCEPT !.autoImported = @ \/ r.autoRun]
    IN /\ r.stage = "read"
       /\ IF r.file.kind = "unreadable"
          THEN /\ uncaught' = uncaught \cup {"importVectorFile"}
               /\ UNCHANGED codec
               /\ vecRuns' = vecRuns \ {r}
               /\ UNCHANGED <<appVars, notVecVars, res, includePriv, importJson,
                              autoRunAfterImport, hVec>>
          ELSE IF ~p.ok
          THEN /\ res' = IF r.live THEN FailRes("import", ErrString(p.error)) ELSE res
               /\ status' = VecOnStatus(status, "error")
               /\ vecRuns' = vecRuns \ {r}
               /\ hVec' = IF r.live THEN [hVec EXCEPT !.resIdeal = FALSE] ELSE hVec
               /\ UNCHANGED <<tab, bundleInput, notVecVars, includePriv, importJson,
                              autoRunAfterImport, uncaught, codec>>
          ELSE IF tab = "crashed"
          THEN /\ vecRuns' = vecRuns \ {r}
               /\ UNCHANGED <<appVars, notVecVars, res, includePriv, importJson,
                              autoRunAfterImport, hVec, uncaught, codec>>
          ELSE /\ bundleInput' = bundleStr
               /\ status' = IF r.autoRun THEN status ELSE VecOnStatus(status, "ok")
               /\ UNCHANGED <<uncaught, codec>>
               /\ IF tab = "decrypt"
                  THEN /\ DecRender(bundleStr, autoDecrypt, selectedRid, aadOverride, hDec)
                       /\ vecRuns' = vecRuns \ {r}
                       /\ hVec' = h
                       /\ UNCHANGED <<tab, out, runIdRef, decRuns, res, includePriv,
                                      importJson, autoRunAfterImport, wkVars, encVars>>
                  ELSE SwitchTab("decrypt", bundleStr, decRuns, vecRuns \ {r}, h)

\* onClick of the "Test vectors" tab
TabVectors ==
  /\ tab \notin {"vectors", "crashed"}
  /\ SwitchTab("vectors", bundleInput, decRuns, vecRuns, hVec)
  /\ UNCHANGED <<bundleInput, status, uncaught, codec>>

\* ---- WK1Panel: the handlers

\* onChange of the wrappedKey textarea
WkSetWrappedKey(values) ==
  \E w \in values :
    /\ tab = "wk1"
    /\ w # wk1.wrappedKey
    /\ wk1' = [wk1 EXCEPT !.wrappedKey = w]
    /\ UNCHANGED <<appVars, notWkVars, hWk, wkRuns>>

\* onChange of the recipient dropdown
WkSetSelectedRid ==
  \E r \in RidOptions(bundleInput) :
    /\ tab = "wk1"
    /\ r # wk1.selectedRid
    /\ wk1' = [wk1 EXCEPT !.selectedRid = r]
    /\ UNCHANGED <<appVars, notWkVars, hWk, wkRuns>>

\* onClick of "Prefill from Bundle JSON" (disabled while the bundle text is empty)
WkClickFill ==
  LET p == JSONParseOrEmpty(bundleInput)
      recips == RecipsOf(p.doc.envelope)
      entry == FindEntry(recips, OrElse(wk1.selectedRid, FirstRid(p.doc.envelope)))
      h == IF p.ok /\ Len(recips) > 0 /\ entry.wrappedKey # NoWk
           THEN HWkCall(hWk, WkOfField(entry.wrappedKey)) ELSE hWk
  IN /\ tab = "wk1"
     /\ bundleInput.kind # "empty"
     /\ IF FillCrashes(bundleInput)
        THEN /\ AppCrash(h)
             /\ UNCHANGED <<bundleInput, status, codec>>
        ELSE /\ wk1' = FillFromBundle(bundleInput, wk1)
             /\ hWk' = h
             /\ UNCHANGED <<appVars, notWkVars, wkRuns>>

\* onClick of "Parse wk1" (disabled while wrappedKey is falsy)
WkClickParse ==
  LET ret == ParseWk1(wk1.wrappedKey)
  IN /\ tab = "wk1"
     /\ WkTruthy(wk1.wrappedKey)
     /\ wk1' = IF ret.ok
               THEN [wk1 EXCEPT !.parsed = Parsed(ret), !.out.error = ""]
               ELSE [wk1 EXCEPT !.parsed = NoParsed,
                                !.out = WkErrorOut(ret.error)]
     /\ hWk' = HWkCall(hWk, wk1.wrappedKey)
     /\ UNCHANGED <<appVars, notWkVars, wkRuns>>

\* onChange of the AAD, DEK hex, recipientPubHex, kid and recipientPrivHex
\* inputs.  hWk.edits counts these edits.
WkSetField(field, values, maxEdits) ==
  \E v \in values :
    /\ tab = "wk1"
    /\ hWk.edits < maxEdits
    /\ v # wk1[field]
    /\ wk1' = [wk1 EXCEPT ![field] = v]
    /\ hWk' = [hWk EXCEPT !.edits = @ + 1]
    /\ UNCHANGED <<appVars, notWkVars, wkRuns>>
WkSetAadText(values, maxEdits) == WkSetField("aadText", values, maxEdits)
WkSetDekHexIn(values, maxEdits) == WkSetField("dekHexIn", values, maxEdits)
WkSetPubHex(values, maxEdits) == WkSetField("pubHex", values, maxEdits)
WkSetKid(values, maxEdits) == WkSetField("kid", values, maxEdits)
WkSetPrivHex(values, maxEdits) == WkSetField("privHex", values, maxEdits)

\* The catch of doUnwrap and doWrap
WkFail(r, msg) ==
  /\ wk1' = IF r.live THEN [wk1 EXCEPT !.out = WkErrorOut(msg)] ELSE wk1
  /\ status' = OnStatus(status, "error")
  /\ wkRuns' = wkRuns \ {r}

\* onClick of "Unwrap -> DEK": doUnwrap up to its await of unwrapDEK_secp256k1
WkClickUnwrap(maxOps, maxPending) ==
  LET err == UnwrapSync(wk1)
      parseCalled == WkTruthy(wk1.wrappedKey) /\ Truthy(wk1.privHex)
      h == [hWk EXCEPT !.ops = @ + 1]
  IN /\ tab = "wk1"
     /\ hWk.ops < maxOps
     /\ err = "" => Cardinality(wkRuns) < maxPending
     /\ IF err # ""
        THEN /\ wk1' = [wk1 EXCEPT !.out = WkErrorOut(err)]
             /\ status' = OnStatus(status, "error")
             /\ wkRuns' = wkRuns
        ELSE /\ wk1' = [wk1 EXCEPT !.out = WkEmptyOut,
                                   !.parsed = Parsed(ParseWk1(wk1.wrappedKey))]
             /\ status' = OnStatus(status, "running")
             /\ wkRuns' = wkRuns \cup {WkRun(hWk.ops + 1, "doUnwrap", "unwrap", wk1)}
     /\ hWk' = IF parseCalled THEN HWkCall(h, wk1.wrappedKey) ELSE h
     /\ UNCHANGED <<tab, bundleInput, notWkVars>>

\* onClick of "Wrap <- DEK": doWrap up to its await of wrapDEK_secp256k1
WkClickWrap(maxOps, maxPending) ==
  LET err == WrapSync(wk1)
  IN /\ tab = "wk1"
     /\ hWk.ops < maxOps
     /\ err = "" => Cardinality(wkRuns) < maxPending
     /\ IF err # ""
        THEN /\ wk1' = [wk1 EXCEPT !.out = WkErrorOut(err)]
             /\ status' = OnStatus(status, "error")
             /\ wkRuns' = wkRuns
        ELSE /\ wk1' = [wk1 EXCEPT !.out = WkEmptyOut]
             /\ status' = OnStatus(status, "running")
             /\ wkRuns' = wkRuns \cup
                            {[WkRun(hWk.ops + 1, "doWrap", "wrap", wk1) EXCEPT
                                !.wk = NoWk,
                                !.dek = DekOfBytes(HexToU8(wk1.dekHexIn).bytes)]}
     /\ hWk' = [hWk EXCEPT !.ops = @ + 1]
     /\ UNCHANGED <<tab, bundleInput, notWkVars>>

\* wrapDEK_secp256k1 returns to doWrap: the key is stored and parsed, then
\* unwrapDEK_secp256k1 is called for the sanity unwrap
WkWrapReturns(faults) ==
  \E r \in wkRuns, fault \in {""} \cup faults :
    LET wk == SdkWrap(r.dek, r.pub, r.kid, SdkAad(r.aad))
        w == WkStr(Wk1Prefix, wk)
    IN /\ r.stage = "wrap"
       /\ IF fault # ""
          THEN WkFail(r, fault) /\ UNCHANGED hWk
          ELSE /\ wk1' = IF r.live
                         THEN [wk1 EXCEPT !.wrappedKey = w, !.parsed = Parsed(ParseWk1(w))]
                         ELSE wk1
               /\ hWk' = HWkCall(hWk, w)
               /\ wkRuns' = (wkRuns \ {r}) \cup {[r EXCEPT !.stage = "unwrap", !.wk = wk]}
               /\ UNCHANGED status
       /\ UNCHANGED <<tab, bundleInput, notWkVars>>

\* unwrapDEK_secp256k1 returns to doUnwrap or to doWrap's sanity unwrap
WkUnwrapReturns(faults) ==
  \E r \in wkRuns, fault \in {""} \cup faults :
    LET ret == IF fault # "" THEN [ok |-> FALSE, dek |-> Undef, error |-> fault]
               ELSE SdkUnwrap(r.wk, r.priv, SdkAad(r.aad))
    IN /\ r.stage = "unwrap"
       /\ IF ret.ok
          THEN /\ wk1' = IF r.live
                         THEN [wk1 EXCEPT !.out = [dekHex |-> U8ToHex(DekBytes(ret.dek)),
                                                   error |-> ""]]
                         ELSE wk1
               /\ status' = OnStatus(status, "ok")
               /\ wkRuns' = wkRuns \ {r}
          ELSE WkFail(r, ret.error)
       /\ UNCHANGED <<tab, bundleInput, notWkVars, hWk>>

\* onClick of the "Encrypt" tab
TabEncrypt ==
  /\ tab \notin {"encrypt", "crashed"}
  /\ SwitchTab("encrypt", bundleInput, decRuns, vecRuns, hVec)
  /\ UNCHANGED <<bundleInput, status, uncaught, codec>>

\* onClick of the "WK1 tools" tab
TabWk1 ==
  /\ tab \notin {"wk1", "crashed"}
  /\ SwitchTab("wk1", bundleInput, decRuns, vecRuns, hVec)
  /\ UNCHANGED <<bundleInput, status, uncaught, codec>>

\* ---- EncryptPanel: the handlers

\* onChange of the plaintext and AAD fields
EncSetPlaintext(texts, maxEdits) ==
  \E t \in texts :
    /\ tab = "encrypt"
    /\ hEnc.edits < maxEdits
    /\ t # enc.plaintext
    /\ enc' = [enc EXCEPT !.plaintext = t]
    /\ hEnc' = [hEnc EXCEPT !.edited = TRUE, !.edits = @ + 1]
    /\ UNCHANGED <<appVars, notEncVars, encRuns, bundleFile>>
EncSetAadText(aads, maxEdits) ==
  \E a \in aads :
    /\ tab = "encrypt"
    /\ hEnc.edits < maxEdits
    /\ a # enc.aadText
    /\ enc' = [enc EXCEPT !.aadText = a]
    /\ hEnc' = [hEnc EXCEPT !.edited = TRUE, !.edits = @ + 1]
    /\ UNCHANGED <<appVars, notEncVars, encRuns, bundleFile>>

\* addRecipient, removeRecipient(i) (its button is disabled on a list of one),
\* updateRecipient(i, patch) from the three inputs, regenRecipient(i).
\* hEnc.edits counts the edits made in the Encrypt tab.
EncAddRecipient(maxRecipients, maxEdits) ==
  /\ tab = "encrypt"
  /\ hEnc.edits < maxEdits
  /\ Len(enc.recipients) < maxRecipients
  /\ enc' = [enc EXCEPT !.recipients =
               Append(@, [rid |-> DemoRid(Len(@) + 1), recipientPrivHex |-> "",
                          recipientPubHex |-> ""])]
  /\ hEnc' = [hEnc EXCEPT !.edited = TRUE, !.edits = @ + 1]
  /\ UNCHANGED <<appVars, notEncVars, encRuns, bundleFile>>
EncRemoveRecipient(maxEdits) ==
  \E i \in 1..Len(enc.recipients) :
    /\ tab = "encrypt"
    /\ hEnc.edits < maxEdits
    /\ Len(enc.recipients) > 1
    /\ enc' = [enc EXCEPT !.recipients =
                 [k \in 1..(Len(@) - 1) |-> IF k < i THEN @[k] ELSE @[k + 1]]]
    /\ hEnc' = [hEnc EXCEPT !.edited = TRUE, !.edits = @ + 1]
    /\ UNCHANGED <<appVars, notEncVars, encRuns, bundleFile>>
EncUpdateRecipient(patches, maxEdits) ==
  \E i \in 1..Len(enc.recipients), patch \in patches :
    /\ tab = "encrypt"
    /\ hEnc.edits < maxEdits
    /\ enc.recipients[i][patch.field] # patch.value
    /\ enc' = [enc EXCEPT !.recipients[i][patch.field] = patch.value]
    /\ hEnc' = [hEnc EXCEPT !.edited = TRUE, !.edits = @ + 1]
    /\ UNCHANGED <<appVars, notEncVars, encRuns, bundleFile>>
EncRegenRecipient(maxKeys, maxEdits) ==
  \E i \in 1..Len(enc.recipients) :
    /\ tab = "encrypt"
    /\ hEnc.edits < maxEdits
    /\ hEnc.drawn < maxKeys
    /\ enc' = [enc EXCEPT !.recipients[i].recipientPrivHex = KeyPool[hEnc.drawn + 1],
                          !.recipients[i].recipientPubHex = PubOf(KeyPool[hEnc.drawn + 1])]
    /\ hEnc' = [hEnc EXCEPT !.edited = TRUE, !.edits = @ + 1, !.drawn = @ + 1]
    /\ UNCHANGED <<appVars, notEncVars, encRuns, bundleFile>>

\* onClick of "Encrypt -> Wrap -> Envelope": runEncrypt up to its await of
\* encryptTextRaw
EncClickRun(maxRuns, maxPending) ==
  /\ tab = "encrypt"
  /\ Len(hEnc.starts) < maxRuns
  /\ Cardinality(encRuns) < maxPending
  /\ status' = OnStatus(status, "running")
  /\ enc' = [enc EXCEPT !.decryptCheck = "", !.rawOut = NoRawOut, !.wrappedKey = NoWk,
                        !.envelope = NoEnvelope]
  /\ encRuns' = encRuns \cup {EncRun(Len(hEnc.starts) + 1, enc)}
  /\ hEnc' = [hEnc EXCEPT
                !.starts = Append(@, [plaintext |-> enc.plaintext, aadText |-> enc.aadText,
                                      recipients |-> enc.recipients]),
                !.setBy = 0, !.ready = <<>>, !.raw = NoRawOut, !.edited = FALSE]
  /\ UNCHANGED <<tab, bundleInput, notEncVars, bundleFile>>

\* The catch of runEncrypt
EncFail(r, msg) ==
  /\ status' = OnStatus(status, "error")
  /\ enc' = IF r.live THEN [enc EXCEPT !.decryptCheck = ErrString(msg)] ELSE enc
  /\ encRuns' = encRuns \ {r}

\* encryptTextRaw returns: the run gathers the recipients of its closure, drawing
\* the key pairs that miss, and calls wrapDEK_secp256k1 for each
EncEncryptReturns(faults, deks, maxKeys) ==
  \E r \in encRuns, fault \in {""} \cup faults, dek \in deks :
    LET e == EnsureAll(r.recipients, hEnc.drawn)
    IN /\ r.stage = "encrypt"
       /\ IF fault # ""
          THEN /\ dek = CHOOSE d \in deks : TRUE
               /\ EncFail(r, fault)
               /\ UNCHANGED hEnc
          ELSE /\ hEnc.drawn + e.used <= maxKeys
               /\ enc' = IF r.live /\ e.set THEN [enc EXCEPT !.recipients = e.next] ELSE enc
               /\ encRuns' = (encRuns \ {r}) \cup
                               {[r EXCEPT !.stage = "wrap", !.ready = e.ready,
                                          !.raw = SdkEncrypt(r.plaintext, SdkAad(r.aadText),
                                                             dek, "n1")]}
               /\ hEnc' = [hEnc EXCEPT !.drawn = @ + e.used]
               /\ UNCHANGED status
       /\ UNCHANGED <<tab, bundleInput, notEncVars, bundleFile>>

\* Promise.all of the wrap calls settles: the run builds and validates the
\* envelope, stores raw, envelope and the first wrappedKey, reports ok, and
\* calls unwrapDEK_secp256k1 for its sanity decrypt
EncWrapReturns(faults) ==
  \E r \in encRuns, fault \in {""} \cup faults :
    LET entries == WrapEntries(r.ready, r.raw, r.aadText)
        env == MkEnvelope(r.raw, entries)
    IN /\ r.stage = "wrap"
       /\ IF fault # ""
          THEN EncFail(r, fault) /\ UNCHANGED hEnc
          ELSE /\ status' = OnStatus(status, "ok")
               /\ enc' = IF r.live
                         THEN [enc EXCEPT !.rawOut = r.raw, !.envelope = env,
                                          !.wrappedKey = entries[1].wrappedKey]
                         ELSE enc
               /\ encRuns' = (encRuns \ {r}) \cup
                               {[r EXCEPT !.stage = "unwrap", !.entries = entries]}
               /\ hEnc' = IF r.live
                          THEN [hEnc EXCEPT !.setBy = r.n, !.ready = r.ready, !.raw = r.raw]
                          ELSE hEnc
       /\ UNCHANGED <<tab, bundleInput, notEncVars, bundleFile>>

\* unwrapDEK_secp256k1 returns to the sanity decrypt, which calls
\* decryptTextFromEnvelope
EncUnwrapReturns(faults) ==
  \E r \in encRuns, fault \in {""} \cup faults :
    LET ret == IF fault # "" THEN [ok |-> FALSE, dek |-> Undef, error |-> fault]
               ELSE SdkUnwrap(r.entries[1].wrappedKey, r.ready[1].recipientPrivHex,
                              SdkAad(r.aadText))
    IN /\ r.stage = "unwrap"
       /\ IF ret.ok
          THEN /\ encRuns' = (encRuns \ {r}) \cup {[r EXCEPT !.stage = "decrypt", !.dek = ret.dek]}
               /\ UNCHANGED <<status, enc>>
          ELSE EncFail(r, ret.error)
       /\ UNCHANGED <<tab, bundleInput, notEncVars, hEnc, bundleFile>>

\* decryptTextFromEnvelope returns: setDecryptCheck(out)
EncDecryptReturns(faults) ==
  \E r \in encRuns, fault \in {""} \cup faults :
    LET ret == IF fault # "" THEN [ok |-> FALSE, plaintext |-> "", error |-> fault]
               ELSE SdkDecrypt(MkEnvelope(r.raw, r.entries), r.dek, r.raw.ciphertextB64url,
                               r.raw.nonceB64url, SdkAad(r.aadText))
    IN /\ r.stage = "decrypt"
       /\ IF ret.ok
          THEN /\ enc' = IF r.live THEN [enc EXCEPT !.decryptCheck = ret.plaintext] ELSE enc
               /\ encRuns' = encRuns \ {r}
               /\ UNCHANGED status
          ELSE EncFail(r, ret.error)
       /\ UNCHANGED <<tab, bundleInput, notEncVars, hEnc, bundleFile>>

\* onClick of "Download bundle JSON" (disabled until rawOut and envelope are set)
EncDownloadBundle(maxKeys) ==
  LET e == EnsureAll(enc.recipients, hEnc.drawn)
      latest == hEnc.setBy = Len(hEnc.starts)
  IN /\ tab = "encrypt"
     /\ enc.rawOut # NoRawOut /\ enc.envelope.present
     /\ hEnc.drawn + e.used <= maxKeys
     /\ enc' = IF e.set THEN [enc EXCEPT !.recipients = e.next] ELSE enc
     /\ bundleFile' = JSONStringify(BundlePayload(enc.aadText, enc.rawOut, enc.envelope, e.ready))
     /\ hEnc' = [hEnc EXCEPT
                   !.drawn = @ + e.used,
                   !.file = [made |-> TRUE,
                             clean |-> latest /\ ~hEnc.edited /\ encRuns = {}
                                       /\ status.sdk = "ok",
                             plaintext |-> IF hEnc.setBy > 0
                                           THEN hEnc.starts[hEnc.setBy].plaintext ELSE "",
                             aadText |-> enc.aadText]]
     /\ UNCHANGED <<appVars, notEncVars, encRuns>>

\* onClick of the "Decrypt" tab
TabDecrypt ==
  /\ tab \notin {"decrypt", "crashed"}
  /\ SwitchTab("decrypt", bundleInput, decRuns, vecRuns, hVec)
  /\ UNCHANGED <<bundleInput, status, uncaught, codec>>

\* The user pastes the downloaded bundle file into the Bundle JSON textarea
DecPasteBundleFile ==
  /\ bundleFile.kind # "empty"
  /\ DecSetBundleInput({bundleFile})

\* ---- The bundles pasted into the Decrypt tab

Recipient(rid, priv) == [rid |-> rid, recipientPrivHex |-> priv, recipientPubHex |-> PubOf(priv)]

\* A bundle as the Encrypt tab downloads it: pt under aadText for the recipients
EncryptedBundle(pt, aadText, recips) ==
  LET raw == SdkEncrypt(pt, SdkAad(aadText), "dek1", "n1")
      entries == [i \in 1..Len(recips) |->
                    [rid |-> recips[i].rid,
                     wrappedKey |-> SdkWrap(raw.dek, recips[i].recipientPubHex,
                                            recips[i].rid, SdkAad(aadText))]]
  IN BundlePayload(aadText, raw, MkEnvelope(raw, entries), recips)

DocOne == EncryptedBundle("P1", DefaultAad, <<Recipient("rid1", "sk1")>>)
DocTwo == EncryptedBundle("P2", OtherAad, <<Recipient("rid1", "sk1"), Recipient("rid2", "sk2")>>)

RunTexts == {JSONStringify(DocOne), JSONStringify(DocTwo)}
SdkFaults == {"sdk failure"}

\* ---- Initial states

StatusInit == [sdk |-> "not wired", vectors |-> "idle"]

\* The Decrypt tab, opened on the App's initial (empty) bundle text
InitDecrypt ==
  /\ tab = "decrypt"
  /\ bundleInput = EmptyText
  /\ status = StatusInit
  /\ DecMount(EmptyText)
  /\ VecMount
  /\ wk1 = Wk1Mounted(EmptyText)
  /\ hWk = HWkInit
  /\ wkRuns = {}
  /\ EncMount
  /\ uncaught = {}
  /\ codec = CodecIdle

\* The user pastes bundles, runs and clears while the SDK settles the pending
\* calls in any order.
NextDecrypt ==
  \/ DecSetBundleInput(RunTexts)
  \/ DecClickRun(MaxRunId, MaxPending)
  \/ DecClickClear(MaxRunId)
  \/ DecUnwrapReturns(SdkFaults)
  \/ DecDecryptReturns(SdkFaults)

SpecDecrypt == InitDecrypt /\ [][NextDecrypt]_vars

\* Every pending SDK call eventually returns or rejects
FairSdk ==
  /\ WF_vars(DecUnwrapReturns(SdkFaults))
  /\ WF_vars(DecDecryptReturns(SdkFaults))

SpecDecryptLive == InitDecrypt /\ [][NextDecrypt]_vars /\ FairSdk

\* Auto-decrypt: the user edits the three inputs the timer effect depends on
\* while time passes.
AutoTexts == {JSONStringify(DocTwo)}

NextAuto ==
  \/ DecSetBundleInput(AutoTexts)
  \/ DecSetAutoDecrypt
  \/ DecSetSelectedRid
  \/ DecClickClear(MaxAutoRunId)
  \/ Tick
  \/ DecTimerFire(MaxAutoRunId, MaxAutoPending)
  \/ DecUnwrapReturns({})
  \/ DecDecryptReturns({})

SpecAuto == InitDecrypt /\ [][NextAuto]_vars

\* ---- Which entry, key and AAD a run uses

\* DocTwo as downloaded; with the keys only in the legacy recipient field; with
\* the second recipient's key missing from the map and a legacy key; with no
\* key at all; and a bundle encrypted under the empty AAD.
DocLegacyPriv ==
  [DocTwo EXCEPT !.recipientPrivHexByRid = NoMap, !.recipientPubHexByRid = NoMap,
                 !.recipient = Recipient("rid2", "sk2")]
DocPartialMap ==
  [DocTwo EXCEPT !.recipientPrivHexByRid.map["rid2"] = "", !.recipient = Recipient("rid2", "sk2")]
DocNoPriv == [DocTwo EXCEPT !.recipientPrivHexByRid = NoMap, !.recipientPubHexByRid = NoMap]
DocEmptyAad == EncryptedBundle("P1", "", <<Recipient("rid1", "sk1")>>)
\* A bundle whose only recipient entry carries no rid, with the key in the
\* legacy recipient field
DocNoRid ==
  [EncryptedBundle("P1", DefaultAad, <<Recipient("rid1", "sk1")>>) EXCEPT
     !.envelope.recipients[1].rid = Undef,
     !.recipientPrivHexByRid = NoMap, !.recipientPubHexByRid = NoMap,
     !.recipient = Recipient("rid1", "sk1")]
\* A bundle for two recipients whose rids are names of Object.prototype, with
\* key maps that are {} and no legacy recipient field: the bundle holds no key
EmptyObject == [kind |-> "object", map |-> [k \in {} |-> Undef]]
DocProtoRids ==
  [EncryptedBundle("P1", DefaultAad, <<Recipient("toString", "sk1"), Recipient("valueOf", "sk2")>>)
     EXCEPT !.recipientPrivHexByRid = EmptyObject, !.recipientPubHexByRid = EmptyObject]
\* recipients named as the properties whose value, set as state, is the updater
\* Object and then isPrototypeOf over the object the first one left
DocObjectRids ==
  [EncryptedBundle("P1", DefaultAad,
                   <<Recipient("constructor", "sk1"), Recipient("isPrototypeOf", "sk2")>>)
     EXCEPT !.recipientPrivHexByRid = EmptyObject, !.recipientPubHexByRid = EmptyObject]
ResolveTexts ==
  {JSONStringify(DocTwo), JSONStringify(DocLegacyPriv), JSONStringify(DocPartialMap),
   JSONStringify(DocNoPriv), JSONStringify(DocEmptyAad), JSONStringify(DocNoRid),
   JSONStringify(DocProtoRids)}
ResolveAads == {"", OtherAad}

\* Auto-decrypt over a bundle with and without aadText while the AAD field is
\* edited: the timer runs the run() of the render that armed it
AutoAadTexts == {JSONStringify(DocTwo), JSONStringify(DocEmptyAad)}
NextAutoAad ==
  \/ DecSetBundleInput(AutoAadTexts)
  \/ DecSetAutoDecrypt
  \/ DecSetAadOverride(ResolveAads)
  \/ DecClickRun(MaxAutoRunId, MaxAutoPending)
  \/ Tick
  \/ DecTimerFire(MaxAutoRunId, MaxAutoPending)
  \/ DecUnwrapReturns({})
  \/ DecDecryptReturns({})

SpecAutoAad == InitDecrypt /\ [][NextAutoAad]_vars

NextResolve ==
  \/ DecSetBundleInput(ResolveTexts)
  \/ DecSetSelectedRid
  \/ DecSetAadOverride(ResolveAads)
  \/ DecClickRun(MaxResolveRunId, MaxResolvePending)
  \/ DecUnwrapReturns({})
  \/ DecDecryptReturns({})

SpecResolve == InitDecrypt /\ [][NextResolve]_vars

\* ---- Bundle replay over bundles of every shape

\* A bundle for two recipients as the Encrypt tab downloads it, then edited:
\* access.recipients missing, not an array (with or without a property 0),
\* empty, cut to one entry, or with an entry that lost its wrappedKey; an envelope the SDK's schema rejects; the
\* private keys in the map, in the legacy recipient field, or nowhere; a
\* top-level wrappedKey (legacy vector bundle) or none.
WideDoc(rk, schemaOk, privSrc, topWk, aad) ==
  LET base == EncryptedBundle("P1", aad, <<Recipient("rid1", "sk1"), Recipient("rid2", "sk2")>>)
      es == base.envelope.recipients
      env == [base.envelope EXCEPT
                !.schemaOk = schemaOk,
                !.recipientsKind = CASE rk = "undefined" -> "undefined"
                                     [] rk \in {"nonarray", "arraylike"} -> "nonarray"
                                     [] OTHER -> "array",
                !.recipients = CASE rk = "one" -> <<es[1]>>
                                 [] rk = "arraylike" -> <<es[2]>>
                                 [] rk = "two" -> es
                                 [] rk = "nowk" -> <<[es[1] EXCEPT !.wrappedKey = NoWk]>>
                                 [] OTHER -> <<>>]
  IN [base EXCEPT
        !.envelope = env,
        !.recipientPrivHexByRid = IF privSrc = "map" THEN @ ELSE NoMap,
        !.recipientPubHexByRid = IF privSrc = "map" THEN @ ELSE NoMap,
        !.recipient = IF privSrc = "legacy" THEN Recipient("rid1", "sk1") ELSE NoRecipient,
        !.wrappedKey = IF topWk THEN es[1].wrappedKey ELSE NoWk]

\* DocOne with the raw part's hashes edited: the hash of another ciphertext, the
\* hash of another AAD
DocRawHash == [DocOne EXCEPT !.raw.ciphertextHash = DocTwo.raw.ciphertextHash]
DocRawAadHash == [DocOne EXCEPT !.raw.aadHash = DocTwo.raw.aadHash]
\* access.recipients is the object {"0": entry of rid2}: in a bundle with the
\* key maps, and in a legacy vector bundle whose recipient carries no rid
DocArrayLike == WideDoc("arraylike", TRUE, "map", FALSE, DefaultAad)
DocArrayLikeLegacy ==
  [WideDoc("arraylike", TRUE, "legacy", TRUE, DefaultAad) EXCEPT !.recipient.rid = Undef]

WideTexts ==
  {JSONStringify(WideDoc(rk, schemaOk, privSrc, topWk, aad)) :
     rk \in {"undefined", "nonarray", "empty", "one", "two", "nowk"},
     schemaOk \in BOOLEAN, privSrc \in {"map", "legacy", "none"},
     topWk \in BOOLEAN, aad \in {DefaultAad, ""}}
  \cup {GarbageText, JSONStringify(EmptyDoc),
        JSONStringify([DocOne EXCEPT !.raw = NoRaw]),
        JSONStringify([DocOne EXCEPT !.envelope = NoEnvelope]),
        JSONStringify(DocRawHash), JSONStringify(DocRawAadHash),
        JSONStringify(DocArrayLike), JSONStringify(DocArrayLikeLegacy),
        NullText, JSONStringify(DocNoRid), JSONStringify(DocProtoRids)}

\* The Decrypt tab after a bundle was pasted
InitBundle ==
  /\ tab = "decrypt"
  /\ bundleInput \in WideTexts
  /\ status = StatusInit
  /\ DecMount(bundleInput)
  /\ VecMount
  /\ wk1 = Wk1Mounted(EmptyText)
  /\ hWk = HWkInit
  /\ wkRuns = {}
  /\ EncMount
  /\ uncaught = {}
  /\ codec = CodecIdle

\* The user replays the bundle in the Decrypt tab, then in the Test-vectors tab
NextBundle ==
  \/ DecSetSelectedRid
  \/ DecClickRun(MaxBundleRuns, MaxBundlePending)
  \/ DecUnwrapReturns({})
  \/ DecDecryptReturns({})
  \/ TabVectors
  \/ VecClickRunFromBundle(MaxBundleRuns, MaxBundlePending)
  \/ VecUnwrapReturns({})
  \/ VecDecryptReturns({}, {})

SpecBundle == InitBundle /\ [][NextBundle]_vars

\* ---- Encrypt: editing the inputs while runs are pending

\* What a user types into a recipient's fields: the rid of the first recipient
\* (a duplicate), somebody's public key
Patches ==
  {[field |-> "rid", value |-> DefaultRid], [field |-> "recipientPubHex", value |-> "pk1"]}
EncAads == {DefaultAad, ""}
EncDeks == {"dek1"}

\* The App as it starts: the Encrypt tab
InitEncrypt ==
  /\ tab = "encrypt"
  /\ bundleInput = EmptyText
  /\ status = StatusInit
  /\ DecMount(EmptyText)
  /\ VecMount
  /\ wk1 = Wk1Mounted(EmptyText)
  /\ hWk = HWkInit
  /\ wkRuns = {}
  /\ EncMount
  /\ uncaught = {}
  /\ codec = CodecIdle

NextEncrypt ==
  \/ EncSetAadText(EncAads, MaxEdits)
  \/ EncAddRecipient(MaxRecipients, MaxEdits)
  \/ EncRemoveRecipient(MaxEdits)
  \/ EncUpdateRecipient(Patches, MaxEdits)
  \/ EncRegenRecipient(MaxKeys, MaxEdits)
  \/ EncClickRun(MaxEncRuns, MaxEncPending)
  \/ EncEncryptReturns(SdkFaults, EncDeks, MaxKeys)
  \/ EncWrapReturns(SdkFaults)
  \/ EncUnwrapReturns(SdkFaults)
  \/ EncDecryptReturns(SdkFaults)

SpecEncrypt == InitEncrypt /\ [][NextEncrypt]_vars

\* ---- Round trip: encrypt, download, open the Decrypt tab, paste, decrypt

NextRoundTrip ==
  \/ EncSetAadText(EncAads, MaxTripEdits)
  \/ EncAddRecipient(MaxRecipients, MaxTripEdits)
  \/ EncClickRun(MaxTripRuns, MaxTripPending)
  \/ EncEncryptReturns({}, EncDeks, MaxKeys)
  \/ EncWrapReturns({})
  \/ EncUnwrapReturns({})
  \/ EncDecryptReturns({})
  \/ EncDownloadBundle(MaxKeys)
  \/ TabDecrypt
  \/ TabEncrypt
  \/ DecPasteBundleFile
  \/ DecClickRun(MaxTripRuns, MaxTripPending)
  \/ DecUnwrapReturns({})
  \/ DecDecryptReturns({})

SpecRoundTrip == InitEncrypt /\ [][NextRoundTrip]_vars

\* ---- WK1: typing, prefilling and parsing wrapped keys

\* What a user types or pastes into the wrappedKey field: the beginnings of the
\* prefix, the prefix with one character replaced, the prefix after a space,
\* the prefix followed by up to MaxRestLen characters (base64url or not), a key
\* the SDK printed, and its base64url block without the prefix; after the prefix
\* a text that ends in a space, one of base64 characters, the base64url of "{}"
\* and of "[1]", and the base64url of three spaces before the block of a key.
SampleWk == SdkWrap("dek1", "pk1", "rid1", DefaultAad)
TypedKeys ==
  {WkStr(SubSeq(Wk1Prefix, 1, n), NoWk) : n \in 0..(Len(Wk1Prefix) - 1)}
  \cup {WkStr([Wk1Prefix EXCEPT ![i] = "X"], NoWk) : i \in 1..Len(Wk1Prefix)}
  \cup {WkStr(<<" ">> \o Wk1Prefix, SampleWk), WkStr(<<>>, SampleWk),
        WkStr(Wk1Prefix, SampleWk), WkStr(Wk1Prefix \o <<"A">>, SampleWk)}
  \cup {WkStr(Wk1Prefix \o rest, NoWk) :
          rest \in UNION {[1..n -> {"A", "!"}] : n \in 0..MaxRestLen}}
  \cup {WkStr(Wk1Prefix \o <<"A", "A", "A", " ">>, NoWk),
        WkStr(Wk1Prefix \o <<"A", "A", "+", "/">>, NoWk),
        WkStr(Wk1Prefix \o <<"e", "3", "0">>, NoWk),
        WkStr(Wk1Prefix \o <<"W", "z", "F", "d">>, NoWk),
        WkStr(Wk1Prefix \o <<"I", "C", "A", "g">>, SampleWk)}

\* A bundle whose second recipient entry carries a number as wrappedKey
DocNumberKey ==
  [DocTwo EXCEPT !.envelope.recipients[2].wrappedKey = NumberWk]
\* A legacy vector bundle: top-level wrappedKey, no recipients
DocLegacy == WideDoc("undefined", TRUE, "legacy", TRUE, DefaultAad)

Wk1Texts ==
  {GarbageText, JSONStringify(DocNumberKey), JSONStringify(DocLegacy), JSONStringify(DocArrayLike),
   JSONStringify(DocProtoRids)}

\* The WK1 tab, opened over a bundle text left by the other tabs
InitWk1 ==
  /\ tab = "wk1"
  /\ bundleInput \in Wk1Texts
  /\ status = StatusInit
  /\ DecMount(EmptyText)
  /\ VecMount
  /\ wk1 = Wk1Mounted(bundleInput)
  /\ hWk = HWkInit
  /\ wkRuns = {}
  /\ EncMount
  /\ uncaught = {}
  /\ codec = CodecIdle

\* What the user types into the other fields: another AAD; the hex text of a
\* DEK with 0x, of another without, of a DEK the SDK never drew, of one byte, of
\* a digit and a half; keys
WkAads == {"", OtherAad}
WkDekTexts ==
  {U8ToHex(DekBytes("dek1")), [i \in 1..64 |-> "2"], U8ToHex([i \in 1..32 |-> 51]),
   <<"0", "x", "0", "0">>, <<"0", "x", "0">>}
WkPubs == {"pk1"}
WkKids == {"", "rid1"}
WkPrivs == {"sk1"}

\* A legacy vector bundle that also carries the DEK, at the top or in raw
DocLegacyDek == [DocLegacy EXCEPT !.dekHex = U8ToHex(DekBytes("dek1"))]
DocLegacyRawDek ==
  [DocLegacy EXCEPT !.dekHex = U8ToHex(DekBytes("dek1")), !.raw.dekHex = U8ToHex(DekBytes("dek2"))]
WkOpsTexts ==
  {JSONStringify(DocTwo), JSONStringify(DocLegacyDek), JSONStringify(DocLegacyRawDek),
   JSONStringify(DocArrayLike)}
\* Keys typed into the wrappedKey field: a key the SDK printed, the same after
\* one more character, and a truncated prefix
WkOpsKeys ==
  {WkStr(Wk1Prefix, SampleWk), WkStr(Wk1Prefix \o <<"A">>, SampleWk),
   WkStr(SubSeq(Wk1Prefix, 1, 3), NoWk)}

NextWk1 ==
  \/ WkSetWrappedKey(TypedKeys)
  \/ WkSetSelectedRid
  \/ WkClickFill
  \/ WkClickParse

\* The WK1 tab with all its handlers: the fields are edited, wrap and unwrap are
\* pressed and the SDK settles the pending calls
InitWkOps ==
  /\ tab = "wk1"
  /\ bundleInput \in WkOpsTexts
  /\ status = StatusInit
  /\ DecMount(EmptyText)
  /\ VecMount
  /\ wk1 = Wk1Mounted(bundleInput)
  /\ hWk = HWkInit
  /\ wkRuns = {}
  /\ EncMount
  /\ uncaught = {}
  /\ codec = CodecIdle

NextWkOps ==
  \/ \E w \in WkOpsKeys : hWk.edits < MaxWkEdits /\ WkSetWrappedKey({w})
  \/ WkSetSelectedRid
  \/ WkSetAadText(WkAads, MaxWkEdits)
  \/ WkSetDekHexIn(WkDekTexts, MaxWkEdits)
  \/ WkSetPubHex(WkPubs, MaxWkEdits)
  \/ WkSetKid(WkKids, MaxWkEdits)
  \/ WkSetPrivHex(WkPrivs, MaxWkEdits)
  \/ WkClickFill
  \/ WkClickParse
  \/ WkClickUnwrap(MaxWkOps, MaxWkPending)
  \/ WkClickWrap(MaxWkOps, MaxWkPending)
  \/ WkWrapReturns(SdkFaults)
  \/ WkUnwrapReturns(SdkFaults)
  \/ TabVectors
  \/ TabWk1
  \/ TabEncrypt

SpecWkOps == InitWkOps /\ [][NextWkOps]_vars

SpecWk1 == InitWk1 /\ [][NextWk1]_vars

\* Prefill alone, over the bundles whose recipients are named as properties of
\* Object.prototype
WkFillTexts == {JSONStringify(DocProtoRids), JSONStringify(DocObjectRids)}
InitWkFill ==
  /\ tab = "wk1"
  /\ bundleInput \in WkFillTexts
  /\ status = StatusInit
  /\ DecMount(EmptyText)
  /\ VecMount
  /\ wk1 = Wk1Mounted(bundleInput)
  /\ hWk = HWkInit
  /\ wkRuns = {}
  /\ EncMount
  /\ uncaught = {}
  /\ codec = CodecIdle
NextWkFill ==
  \/ WkSetSelectedRid
  \/ WkClickFill
SpecWkFill == InitWkFill /\ [][NextWkFill]_vars

\* ---- Test vectors: self-test, bundle replay, vector import

\* The vector a self-test produced
SampleVector ==
  LET raw == SdkEncrypt(GenPlaintext, GenAad, "dek2", "n1")
      wk == SdkWrap(raw.dek, PubOf("sk2"), GenRid, GenAad)
  IN VecGenRes("sk2", raw, wk, MkEnvelope(raw, <<[rid |-> GenRid, wrappedKey |-> wk]>>),
               GenPlaintext).generated

\* The files a user picks: a file that cannot be read, text that is no JSON, the
\* JSON text "null", an exported vector with and without the private key
ImportFiles ==
  {[kind |-> "unreadable", v |-> NoVector], [kind |-> "garbage", v |-> NoVector],
   [kind |-> "null", v |-> NoVector],
   VectorFile(SampleVector, TRUE), VectorFile(SampleVector, FALSE)}
\* The same, and vectors that lack the raw part, the nonce, the envelope or the
\* wrappedKey
ImportFilesWide ==
  ImportFiles \cup
    {VectorFile([SampleVector EXCEPT !.raw = NoRaw], TRUE),
     VectorFile([SampleVector EXCEPT !.raw.nonceB64url = Undef], TRUE),
     VectorFile([SampleVector EXCEPT !.envelope = NoEnvelope], TRUE),
     VectorFile([SampleVector EXCEPT !.wrappedKey = NoWk], TRUE)}

WrongTexts == {"vector: garbled"}
\* The key pair and the DEK the self-test draws
GenPrivs == {"sk2"}
GenDeks == {"dek2"}

\* The Test-vectors tab, opened over a bundle text left by the other tabs
InitVectors ==
  /\ tab = "vectors"
  /\ bundleInput \in {EmptyText, JSONStringify(DocOne)}
  /\ status = StatusInit
  /\ DecMount(EmptyText)
  /\ VecMount
  /\ wk1 = Wk1Mounted(EmptyText)
  /\ hWk = HWkInit
  /\ wkRuns = {}
  /\ EncMount
  /\ uncaught = {}
  /\ codec = CodecIdle

NextVectors ==
  \/ VecClickGenerate(GenPrivs, MaxVecOps, MaxVecPending)
  \/ VecEncryptReturns(SdkFaults, GenDeks)
  \/ VecWrapReturns(SdkFaults)
  \/ VecClickRunFromBundle(MaxVecOps, MaxVecPending)
  \/ VecUnwrapReturns(SdkFaults)
  \/ VecDecryptReturns(SdkFaults, WrongTexts)
  \/ VecSetIncludePriv
  \/ VecSetAutoRunAfterImport
  \/ VecImportStart(ImportFiles, MaxVecOps, MaxVecPending)
  \/ VecImportReadReturns
  \/ TabVectors

SpecVectors == InitVectors /\ [][NextVectors]_vars

\* ---- Vector import and what follows it in the Decrypt tab

\* The user toggles the two checkboxes, picks files and returns to the
\* Test-vectors tab; file reads, timers and SDK calls settle.
NextImport ==
  \/ VecSetAutoRunAfterImport
  \/ VecImportStart(ImportFilesWide, MaxImportOps, MaxImportPending)
  \/ VecImportReadReturns
  \/ TabVectors
  \/ DecSetAutoDecrypt
  \/ Tick
  \/ DecTimerFire(MaxImportRunId, MaxImportPending)
  \/ DecUnwrapReturns({})
  \/ DecDecryptReturns({})

\* Every pending file read, timer and SDK call settles; the user may stop
\* acting at any time.
FairImport ==
  /\ WF_vars(VecImportReadReturns)
  /\ WF_vars(Tick)
  /\ WF_vars(DecTimerFire(MaxImportRunId, MaxImportPending))
  /\ WF_vars(DecUnwrapReturns({}))
  /\ WF_vars(DecDecryptReturns({}))

SpecImport == InitVectors /\ [][NextImport]_vars /\ FairImport

\* ---- Self-tests and the export of the vector they generate

ExportPrivs == {"sk1", "sk2"}

NextExport ==
  \/ VecClickGenerate(ExportPrivs, MaxExportOps, MaxExportPending)
  \/ VecEncryptReturns({}, GenDeks)
  \/ VecWrapReturns({})
  \/ VecUnwrapReturns({})
  \/ VecDecryptReturns({}, {})
  \/ VecSetIncludePriv
  \/ VecDownloadVector
  \/ VecCopyVector

SpecExport == InitVectors /\ [][NextExport]_vars

\* ---- The hex codec of lib/format.js on its own

\* Bytes that exercise one-digit and two-digit values and both nibbles
SampleBytes == {0, 9, 10, 15, 16, 171, 255}
\* Characters of the texts handed to hexToU8: digits of both cases, a letter
\* that is no hex digit, a sign, a space, a vertical tab and a no-break space
SampleChars == {"0", "a", "F", "g", "-", " ", "U+000B", "U+00A0"}
SeqsUpTo(S, n) == UNION {[1..k -> S] : k \in 0..n}

\* A byte sequence to print, or a text to parse, typed with or without "0x"
InitCodec ==
  /\ tab = "encrypt"
  /\ bundleInput = EmptyText
  /\ status = StatusInit
  /\ DecMount(EmptyText)
  /\ VecMount
  /\ wk1 = Wk1Mounted(EmptyText)
  /\ hWk = HWkInit
  /\ wkRuns = {}
  /\ EncMount
  /\ uncaught = {}
  /\ \/ \E u8 \in SeqsUpTo(SampleBytes, MaxHexBytes) :
          codec = [CodecIdle EXCEPT !.src = "bytes", !.bytes = u8]
     \/ \E t \in SeqsUpTo(SampleChars, MaxHexChars), pre \in {<<>>, HexPrefix} :
          codec = [CodecIdle EXCEPT !.src = "text", !.text = [present |-> TRUE, chars |-> pre \o t]]

\* u8ToHex(bytes)
CodecU8ToHex ==
  /\ codec.src = "bytes" /\ ~codec.text.present
  /\ codec' = [codec EXCEPT !.text = [present |-> TRUE, chars |-> U8ToHex(codec.bytes)]]
  /\ UNCHANGED <<appVars, decVars, vecVars, wkVars, encVars, uncaught>>
\* The printed text is copied without its "0x"
CodecDropPrefix ==
  /\ codec.src = "bytes" /\ codec.text.present /\ ~codec.bare /\ ~codec.dec.done
  /\ codec' = [codec EXCEPT !.bare = TRUE,
                            !.text.chars = SubSeq(@, Len(HexPrefix) + 1, Len(@))]
  /\ UNCHANGED <<appVars, decVars, vecVars, wkVars, encVars, uncaught>>
\* hexToU8(text)
CodecHexToU8 ==
  /\ codec.text.present /\ ~codec.dec.done
  /\ codec' = [codec EXCEPT !.dec = [done |-> TRUE, ok |-> HexToU8(codec.text.chars).ok,
                                     bytes |-> HexToU8(codec.text.chars).bytes,
                                     error |-> HexToU8(codec.text.chars).error]]
  /\ UNCHANGED <<appVars, decVars, vecVars, wkVars, encVars, uncaught>>

NextCodec ==
  \/ CodecU8ToHex
  \/ CodecDropPrefix
  \/ CodecHexToU8

SpecCodec == InitCodec /\ [][NextCodec]_vars


\* ------------------------------------------------------------------ claims

\* C1: a run that is no longer the current one (a newer run was started, or Clear
\* was pressed, while it awaited the SDK) changes neither out nor the status
\* when it completes, with success or with failure.
C1_StaleRunWritesNothing ==
  [][\A r \in decRuns :
       (r.id # runIdRef /\ \A q \in decRuns' : q.id # r.id)
         => (out' = out /\ status' = status)]_vars
\* Both a successful and a failed completion of a stale run have been dropped.
C1_Witness == hDec.stale = {"ok", "error"}

\* C2: once no SDK call is pending, and Clear was not pressed since the last run
\* start, out is the outcome of the most recently started run.
C2_LastRunWins ==
  (decRuns = {} /\ hDec.lastId > 0 /\ ~hDec.cleared)
    => (hDec.lastDone /\ out = hDec.lastOut)
\* Overlapping runs without any Clear: an older run completed stale, all calls
\* have returned and the last run's plaintext is displayed.
C2_Witness ==
  /\ decRuns = {} /\ hDec.clears = 0 /\ hDec.started >= 3
  /\ hDec.stale = {"ok", "error"} /\ out.ok

\* C3: the run id is the number of run starts plus the number of Clears (each
\* adds exactly one, nothing resets it), no id was issued twice, and the pending
\* runs carry distinct ids not above the current one.
C3_RunIdCounts ==
  /\ runIdRef = hDec.started + hDec.clears
  /\ ~hDec.dup
  /\ Cardinality(hDec.ids) = hDec.started
  /\ \A r \in decRuns : r.id \in hDec.ids /\ r.id >= 1 /\ r.id <= runIdRef
  /\ \A r, q \in decRuns : r.id = q.id => r = q
\* Two runs pending at once, started around a Clear.
C3_Witness ==
  /\ hDec.clears >= 1 /\ hDec.started >= 2 /\ Cardinality(decRuns) >= 2

\* C4: with auto-decrypt off no timer is pending and no timer starts a run; at
\* most one timer is pending, and it is due exactly DebounceTicks after the last
\* change of bundleInput, autoDecrypt or selectedRid with that change's values;
\* so a timer-started run starts DebounceTicks after the last change, and at
\* most one starts per change.
C4_Debounce ==
  /\ Cardinality(timers) <= 1
  /\ ~autoDecrypt => timers = {}
  /\ \A x \in timers :
       /\ x.left = DebounceTicks - age
       /\ x.text = bundleInput /\ x.sel = selectedRid
  /\ hDec.autoRuns <= 1
  /\ hDec.fireAge \in {-1, DebounceTicks}
  /\ hDec.fireAge # -1 => hDec.fireAuto
\* A burst of two or more changes less than DebounceTicks apart was followed by
\* one timer-started run.
C4_Witness == hDec.fireBurst = 2 /\ hDec.autoRuns = 1 /\ hDec.fireAge = DebounceTicks

\* C5: every failure of a handler is caught inside the handler and ends in a
\* non-empty error message in the panel's state: no handler's promise rejects
\* with nobody catching it, and a failed result shows a message.
C5_EveryFailureCaught ==
  /\ uncaught = {}
  /\ (res.present /\ ~res.ok) => Truthy(res.error)

\* C8: a self-test whose SDK calls all behaved as the SDK's contract ends with
\* res.ok, the input plaintext and the five checks true; and whatever the SDK
\* did, res.ok of a self-test implies decryptOk, hashMatch and aadMatch.
C8_SelfTest ==
  (res.present /\ res.mode = "generate")
    => /\ hVec.resIdeal =>
            /\ res.ok
            /\ res.plaintext = GenPlaintext
            /\ res.checks.envelopeValid /\ res.checks.wk1Parsed /\ res.checks.hashMatch
            /\ res.checks.aadMatch /\ res.checks.decryptOk
       /\ res.ok => (res.checks.decryptOk /\ res.checks.hashMatch /\ res.checks.aadMatch)
\* A self-test ran to its end over an SDK that kept its contract.
C8_Witness ==
  /\ res.present /\ res.mode = "generate" /\ hVec.resIdeal
  /\ res.ok /\ res.generated.present /\ vecRuns = {}

\* C6 as stated: a bundle whose envelope has no access.recipients (missing, not
\* an array, or empty) is rejected by DecryptPanel.run and by runFromBundle
\* before any SDK call, validateEnvelope included.
C6_RejectedBeforeAnyCall ==
  /\ hDec.sync.noRecips => (~hDec.sync.ok /\ hDec.sync.calls = <<>>)
  /\ hVec.sync.noRecips => (~hVec.sync.ok /\ hVec.sync.calls = <<>>)

\* C6: for a bundle with raw and an envelope that has no access.recipients,
\* DecryptPanel.run calls validateEnvelope first and then rejects the bundle
\* without calling unwrapDEK_secp256k1 or decryptTextFromEnvelope; so does
\* runFromBundle unless the bundle has a top-level wrappedKey.
C6_RejectedBeforeUnwrap ==
  /\ hDec.sync.noRecips =>
       /\ ~hDec.sync.ok
       /\ hDec.sync.calls = IF hDec.sync.rawOk THEN <<"validateEnvelope">> ELSE <<>>
  /\ (hVec.sync.noRecips /\ ~hVec.sync.topWrappedKey) =>
       /\ ~hVec.sync.ok
       /\ hVec.sync.calls = IF hVec.sync.rawOk THEN <<"validateEnvelope">> ELSE <<>>
  /\ \A r \in decRuns : Len(RecipsOf(JSONParseOrEmpty(r.text).doc.envelope)) > 0
  /\ \A r \in vecRuns :
       r.kind = "bundle" =>
         \/ Len(RecipsOf(JSONParseOrEmpty(r.text).doc.envelope)) > 0
         \/ JSONParseOrEmpty(r.text).doc.wrappedKey # NoWk
\* Both panels rejected a bundle without recipients that the SDK's schema
\* accepts, after validateEnvelope and with the recipients error.
C6_Witness ==
  /\ hDec.sync.noRecips /\ hDec.sync.calls = <<"validateEnvelope">>
  /\ hVec.sync.noRecips /\ ~hVec.sync.topWrappedKey /\ hVec.sync.calls = <<"validateEnvelope">>
  /\ JSONParseOrEmpty(bundleInput).doc.envelope.schemaOk
  /\ res.present /\ res.error = "envelope.access.recipients missing/empty"

\* C7: parseWk1 of a value that is no string throws "wrappedKey must be a
\* string"; of a string that does not start with pxp201:wk1: it throws the error
\* that names that prefix; in both cases neither atob nor JSON.parse is called.
C7_ParseWk1Rejects ==
  hWk.called =>
    /\ hWk.arg.kind # "string" =>
         /\ ~hWk.ret.ok /\ hWk.ret.error = "wrappedKey must be a string"
         /\ ~hWk.ret.atob /\ ~hWk.ret.jsonParse
    /\ (hWk.arg.kind = "string" /\ ~StartsWith(hWk.arg.chars, Wk1Prefix)) =>
         /\ ~hWk.ret.ok /\ hWk.ret.error = "Not a wk1 key (expected prefix pxp201:wk1:)"
         /\ ~hWk.ret.atob /\ ~hWk.ret.jsonParse
\* "Parse wk1" was pressed over a key that lacks only the last character of the
\* prefix: the prefix error is displayed and the parsed box is empty.
C7_Witness ==
  /\ hWk.called /\ hWk.arg = WkStr(SubSeq(Wk1Prefix, 1, Len(Wk1Prefix) - 1), NoWk)
  /\ wk1.wrappedKey = hWk.arg
  /\ wk1.out.error = "Not a wk1 key (expected prefix pxp201:wk1:)"
  /\ ~wk1.parsed.present

\* C9: the envelope in the Encrypt tab's state was written by a run; it has one
\* entry per recipient of the list that run started with, in that order, each
\* with that recipient's rid and the wrappedKey of the run's one DEK to that
\* recipient's public key (the one in the list when the run started; for a
\* recipient that had none, the public half of the pair the run drew for it)
\* under the AAD the run started with; rawOut is the run's encryption of the
\* plaintext it started with, and the displayed wrappedKey is the first entry's.
C9_EnvelopeEntries ==
  enc.envelope.present =>
    /\ hEnc.setBy \in 1..Len(hEnc.starts)
    /\ LET start == hEnc.starts[hEnc.setBy]
           L == start.recipients
           e == enc.envelope.recipients
       IN /\ Len(e) = Len(L)
          /\ enc.rawOut = hEnc.raw
          /\ enc.rawOut.ciphertextB64url.pt = start.plaintext
          /\ enc.rawOut.ciphertextB64url.aad = SdkAad(start.aadText)
          /\ \A i \in 1..Len(L) :
               LET pub == IF L[i].recipientPubHex # "" THEN L[i].recipientPubHex
                          ELSE hEnc.ready[i].recipientPubHex
               IN /\ e[i].rid = L[i].rid
                  /\ e[i].wrappedKey = SdkWrap(enc.rawOut.dek, pub, L[i].rid, SdkAad(start.aadText))
                  /\ L[i].recipientPubHex = "" => pub = PubOf(hEnc.ready[i].recipientPrivHex)
          /\ enc.wrappedKey = e[1].wrappedKey
\* A run whose only recipient had a public key but no private key when it
\* started has written the envelope.
C9_Witness ==
  /\ enc.envelope.present /\ hEnc.setBy > 0
  /\ LET L == hEnc.starts[hEnc.setBy].recipients
     IN Len(L) = 1 /\ L[1].recipientPubHex = "pk1" /\ L[1].recipientPrivHex = ""
  /\ status.sdk = "ok"

\* C10: a bundle downloaded right after a successful run with no edits in
\* between, pasted unchanged into a freshly mounted Decrypt tab and run with the
\* tab's default settings, decrypts to the plaintext that was encrypted, for
\* every AAD the Encrypt tab accepts, the empty one included.
C10_RoundTrip ==
  (/\ tab = "decrypt"
   /\ hEnc.file.made /\ hEnc.file.clean
   /\ bundleInput = bundleFile
   /\ hDec.started = 1 /\ hDec.onFile /\ hDec.lastDone /\ decRuns = {})
    => (out.ok /\ out.plaintext = hEnc.file.plaintext)
\* The round trip of a bundle encrypted under the default AAD for the default
\* single recipient has ended in the Decrypt tab showing the plaintext.
C10_Witness ==
  /\ tab = "decrypt"
  /\ hEnc.file.made /\ hEnc.file.clean /\ hEnc.file.aadText = DefaultAad
  /\ bundleInput = bundleFile
  /\ hDec.started = 1 /\ hDec.onFile /\ hDec.lastDone /\ decRuns = {}
  /\ out.ok /\ out.plaintext = DefaultPlaintext

\* C11: in the bundle file downloadBundle wrote, for every entry of
\* envelope.access.recipients, recipientPubHexByRid[entry.rid] is the public key
\* the entry's wrappedKey was wrapped to, and recipientPrivHexByRid[entry.rid] is
\* the private key of that key pair.
C11_BundleKeyMaps ==
  bundleFile.kind = "json" =>
    LET d == bundleFile.doc
        e == d.envelope.recipients
    IN \A i \in 1..Len(e) :
         /\ MapLookup(d.recipientPubHexByRid, e[i].rid) = e[i].wrappedKey.pub
         /\ PubOf(MapLookup(d.recipientPrivHexByRid, e[i].rid)) = e[i].wrappedKey.pub
\* A bundle was downloaded after a run over the default single recipient, whose
\* key fields were empty: its maps hold the pair the run drew.
C11_Witness ==
  /\ bundleFile.kind = "json"
  /\ Len(bundleFile.doc.envelope.recipients) = 1
  /\ bundleFile.doc.envelope.recipients[1].wrappedKey.pub = PubOf(KeyPool[1])
  /\ MapLookup(bundleFile.doc.recipientPrivHexByRid, DefaultRid) = KeyPool[1]
  /\ MapLookup(bundleFile.doc.recipientPubHexByRid, DefaultRid) = PubOf(KeyPool[1])

\* C12: when importVectorFile has read its file, it accepts the vector exactly
\* when the text is the JSON of an object with raw.ciphertextB64url,
\* raw.nonceB64url, envelope, wrappedKey and recipientPrivHex; then the shared
\* bundle text becomes the JSON of the converted bundle and the Decrypt tab is
\* the active one.  Otherwise bundle text and tab stay as they are, the status
\* becomes error and the panel (when it is still the mounted one) shows a failed
\* import result with a message.
C12_ImportAcceptsOrRejects ==
  [][\A r \in vecRuns :
       (/\ r.kind = "import" /\ r.file.kind # "unreadable"
        /\ \A q \in vecRuns' : q.n # r.n)
         => LET v == r.file.v
                complete == /\ r.file.kind = "json"
                            /\ v.raw.ciphertextB64url # NoCt /\ Truthy(v.raw.nonceB64url)
                            /\ v.envelope.present /\ v.wrappedKey # NoWk
                            /\ Truthy(v.recipientPrivHex)
            IN IF complete
               THEN /\ tab' = "decrypt"
                    /\ bundleInput'.kind = "json"
                    /\ bundleInput'.doc.raw = RawPart(v.raw)
                    /\ bundleInput'.doc.envelope = v.envelope
                    /\ bundleInput'.doc.wrappedKey = v.wrappedKey
                    /\ bundleInput'.doc.recipient.recipientPrivHex = v.recipientPrivHex
               ELSE /\ tab' = tab /\ bundleInput' = bundleInput
                    /\ status'.sdk = "error"
                    /\ r.live => (res'.present /\ res'.mode = "import" /\ ~res'.ok
                                  /\ Truthy(res'.error))]_vars
\* A vector exported without the private key was picked and rejected: the panel
\* shows the failed import, the Test-vectors tab is still open.
C12_Witness ==
  /\ tab = "vectors" /\ vecRuns = {}
  /\ res.present /\ res.mode = "import" /\ ~res.ok
  /\ res.error = "Vector missing recipientPrivHex. Re-export with 'include demo privkey' enabled."
  /\ status.sdk = "error"

\* C14: a vector import with "auto-run after import" on is followed by a decrypt
\* run with no further user action.  Stated on the states in which nothing is
\* pending (no file read, no timer, no SDK call), where only a user action can
\* make anything happen: in such a state of the Decrypt tab after such an import
\* a run has started, the tab shows a plaintext or an error, and the status is
\* ok or error.
C14_AutoRunFollowsImport ==
  (/\ hVec.autoImported /\ tab = "decrypt"
   /\ vecRuns = {} /\ timers = {} /\ decRuns = {})
    => (/\ hDec.started > 0
        /\ out.ok \/ Truthy(out.error)
        /\ status.sdk \in {"ok", "error"})
\* A vector was imported with "auto-run after import" on: the Decrypt tab is open
\* over the converted bundle, nothing is pending, nothing has run.
C14_Witness ==
  /\ hVec.autoImported /\ tab = "decrypt"
  /\ bundleInput.kind = "json" /\ bundleInput.doc.recipient.recipientPrivHex = "sk2"
  /\ ~autoDecrypt /\ timers = {} /\ decRuns = {} /\ vecRuns = {}
  /\ hDec.started = 0 /\ out = EmptyOut /\ status.sdk = "not wired"

\* C13 as stated: while "include demo privkey" is off, the exported vector text
\* has no recipientPrivHex field, the on-screen vector shows the placeholder,
\* and the exported text is the same whatever private key the self-test drew
\* (the SDK's own draws being the same).
C13_SameForEveryKey ==
  /\ (res.generated.present /\ ~includePriv)
       => GeneratedDisplay(res.generated, includePriv).v.recipientPrivHex = HiddenPriv
  /\ (hVec.export.made /\ ~hVec.export.incl)
       => /\ hVec.export.text.v.recipientPrivHex = Undef
          /\ \A k \in ExportPrivs :
               LET g == hVec.export.of
                   wk == SdkWrap(g.wrappedKey.dek, PubOf(k), g.rid, g.aadText)
                   env == [g.envelope EXCEPT !.recipients = <<[rid |-> g.rid, wrappedKey |-> wk]>>]
                   ofK == [g EXCEPT !.recipientPrivHex = k, !.recipientPubHex = PubOf(k),
                                    !.wrappedKey = wk, !.envelope = env]
               IN hVec.export.text = VectorFile(ofK, FALSE)
\* C13: while "include demo privkey" is off, the exported vector text (download
\* and copy) has no recipientPrivHex field and is the same whatever value the
\* generated vector's recipientPrivHex field holds, and the on-screen vector
\* shows the placeholder in that field and is otherwise the generated vector.
C13_NoPrivInOutputs ==
  /\ (res.generated.present /\ ~includePriv)
       => \A k \in PrivKeys \cup {Undef} :
            /\ GeneratedDisplay(res.generated, includePriv).v.recipientPrivHex = HiddenPriv
            /\ GeneratedDisplay(res.generated, includePriv)
                 = GeneratedDisplay([res.generated EXCEPT !.recipientPrivHex = k], includePriv)
  /\ (hVec.export.made /\ ~hVec.export.incl)
       => /\ hVec.export.text.v.recipientPrivHex = Undef
          /\ \A k \in PrivKeys \cup {Undef} :
               hVec.export.text
                 = VectorFile([hVec.export.of EXCEPT !.recipientPrivHex = k], FALSE)
\* A self-test that drew sk1 has succeeded and its vector was copied with
\* "include demo privkey" off; the box was ticked afterwards.
C13_Witness ==
  /\ hVec.export.made /\ hVec.export.by = "copy" /\ ~hVec.export.incl
  /\ hVec.export.of.recipientPrivHex = "sk1"
  /\ res.generated = hVec.export.of /\ includePriv

\* C15: the Vectors panel shows "All checks OK" (res.ok) only when each of the
\* five checks it lists is true, after a self-test and after "Run from Bundle
\* JSON".
C15_OkMeansAllChecks ==
  (res.present /\ res.ok)
    => /\ res.checks.present
       /\ res.checks.envelopeValid /\ res.checks.wk1Parsed
       /\ res.checks.hashMatch /\ res.checks.aadMatch /\ res.checks.decryptOk
\* "Run from Bundle JSON" has ended with "All checks OK" over a bundle that
\* decrypts.
C15_Witness ==
  /\ res.present /\ res.mode = "bundle" /\ res.ok /\ vecRuns = {}
  /\ res.plaintext # Undef /\ res.checks.decryptOk

\* The private keys a bundle holds: the non-empty strings of its own
\* recipientPrivHexByRid entries and of its legacy recipient.recipientPrivHex
BundlePrivKeys(b) ==
  {v \in {b.recipientPrivHexByRid.map[k] : k \in DOMAIN b.recipientPrivHexByRid.map}
           \cup {b.recipient.recipientPrivHex} : Truthy(v)}

\* C16: DecryptPanel.run and VectorsPanel.runFromBundle call validateEnvelope,
\* then unwrapDEK_secp256k1, then decryptTextFromEnvelope: what a run has
\* called is always a leading part of that sequence; a run that has called
\* unwrap has an envelope the SDK accepted and passed a private key of the
\* bundle; a run that has called decrypt holds the DEK a successful unwrap
\* returned.
SdkCallOrder == <<"validateEnvelope", "unwrapDEK_secp256k1", "decryptTextFromEnvelope">>
C16_CallOrder ==
  /\ \E n \in 0..2 : hDec.sync.calls = SubSeq(SdkCallOrder, 1, n)
  /\ \E n \in 0..2 : hVec.sync.calls = SubSeq(SdkCallOrder, 1, n)
  /\ \A r \in decRuns :
       LET b == JSONParseOrEmpty(r.text).doc
           unwrap == SdkUnwrap(r.unwrapArgs.wrappedKey, r.unwrapArgs.recipientPrivKeyHex,
                               r.unwrapArgs.aadText)
       IN /\ \E n \in 2..3 : r.calls = SubSeq(SdkCallOrder, 1, n)
          /\ b.envelope.present /\ SdkValidateOk(b.envelope)
          /\ r.unwrapArgs.recipientPrivKeyHex \in BundlePrivKeys(b)
          /\ Len(r.calls) = 3 => (unwrap.ok /\ r.dek = unwrap.dek)
  /\ \A r \in vecRuns :
       r.kind = "bundle" =>
         LET b == JSONParseOrEmpty(r.text).doc
             unwrap == SdkUnwrap(r.wk, r.priv, SdkAad(IF b.aadText # Undef THEN b.aadText ELSE ""))
         IN /\ \E n \in 2..3 : r.calls = SubSeq(SdkCallOrder, 1, n)
            /\ b.envelope.present /\ SdkValidateOk(b.envelope)
            /\ r.priv \in BundlePrivKeys(b)
            /\ Len(r.calls) = 3 => (unwrap.ok /\ r.dek = unwrap.dek)
\* A run of the Decrypt tab over the bundle that holds no private key awaits
\* unwrapDEK_secp256k1, called with Object.prototype.toString as the key.
C16_Witness ==
  \E r \in decRuns :
    /\ r.text = JSONStringify(DocProtoRids) /\ BundlePrivKeys(DocProtoRids) = {}
    /\ r.calls = SubSeq(SdkCallOrder, 1, 2)
    /\ r.unwrapArgs.recipientPrivKeyHex = Inherited("toString")

\* C17: pressing Decrypt over a bundle that passes the checks up to the
\* recipients unwraps the first entry whose rid is the selected rid when the
\* envelope has such an entry, the first entry otherwise, with
\* recipientPrivHexByRid[entry.rid] as private key when the map has a non-empty
\* one, else with the legacy recipient.recipientPrivHex; when the bundle has
\* neither, the press calls no unwrap and shows an error.
C17_EntryAndKey ==
  [][LET p == JSONParseOrEmpty(bundleInput)
         b == p.doc
         recips == RecipsOf(b.envelope)
         hits == {i \in 1..Len(recips) : recips[i].rid = selectedRid}
         entry == IF selectedRid # "" /\ hits # {}
                  THEN recips[CHOOSE i \in hits : \A j \in hits : i <= j]
                  ELSE recips[1]
         own == b.recipientPrivHexByRid.map
         fromMap == IF PropKey(entry.rid) \in DOMAIN own THEN own[PropKey(entry.rid)] ELSE Undef
         legacy == b.recipient.recipientPrivHex
         priv == IF Truthy(fromMap) THEN fromMap ELSE legacy
     IN (/\ hDec'.started = hDec.started + 1
         /\ p.ok /\ ~p.isNull
         /\ b.raw.ciphertextB64url # NoCt /\ Truthy(b.raw.nonceB64url)
         /\ b.envelope.present /\ SdkValidateOk(b.envelope)
         /\ Len(recips) > 0 /\ entry.wrappedKey # NoWk)
          => IF Truthy(priv)
             THEN \E r \in decRuns' \ decRuns :
                    /\ r.unwrapArgs.wrappedKey = entry.wrappedKey
                    /\ r.unwrapArgs.recipientPrivKeyHex = priv
             ELSE /\ decRuns' = decRuns
                  /\ ~out'.ok /\ Truthy(out'.error) /\ status'.sdk = "error"]_vars
\* Decrypt was pressed over the bundle whose only entry has no rid and whose
\* key is in the legacy field: no run is pending, the panel shows the error.
C17_Witness ==
  /\ bundleInput = JSONStringify(DocNoRid) /\ selectedRid = ""
  /\ hDec.started = 1 /\ decRuns = {}
  /\ out.error = "No recipient rid available" /\ status.sdk = "error"

\* C18: a run passes to unwrap the bundle's aadText when that is a non-empty
\* string and otherwise the AAD field as it is when the run starts, an empty
\* AAD as absent; the decrypt call of the run receives the same AAD as its
\* unwrap call, whatever the field has become since.
C18_OneAadPerRun ==
  [][/\ \A r \in decRuns' \ decRuns :
          r.stage = "unwrap" =>
            LET fromBundle == JSONParseOrEmpty(r.text).doc.aadText
                chosen == IF fromBundle \notin {Undef, ""} THEN fromBundle ELSE aadOverride
            IN r.unwrapArgs.aadText = IF chosen = "" THEN Undef ELSE chosen
     /\ \A r \in decRuns' :
          r.stage = "decrypt" => r.decryptAad = r.unwrapArgs.aadText]_vars
\* The auto-decrypt timer is due over the bundle without aadText, armed by a
\* render whose AAD field was another than the field is now.
C18_Witness ==
  \E x \in timers :
    /\ x.left = 0 /\ x.text = JSONStringify(DocEmptyAad) /\ x.text = bundleInput
    /\ autoDecrypt /\ x.aadOv # aadOverride

\* C19: when every pending SDK call eventually returns or rejects, a status.sdk
\* of "running" is eventually followed by "ok" or "error".
C19_RunningEnds == (status.sdk = "running") ~> (status.sdk \in {"ok", "error"})
\* Clear was pressed, no SDK call is pending any more, and the status still is
\* "running".
C19_Witness == hDec.cleared /\ decRuns = {} /\ status.sdk = "running"

\* C20: Clear empties the bundle text, the displayed result and the selected rid
\* and leaves every pending run with an id below the current one; while no run
\* was started since the Clear the result stays empty, and a non-empty result
\* only appears by the most recently started run: when it fails before its first
\* await, or when it completes.
C20_ClearInvalidates ==
  [][/\ hDec'.clears # hDec.clears
          => /\ bundleInput' = EmptyText /\ out' = EmptyOut /\ selectedRid' = ""
             /\ decRuns' = decRuns
             /\ \A r \in decRuns' : r.id < runIdRef'
     /\ hDec'.cleared => out' = EmptyOut
     /\ (out' # out /\ out' # EmptyOut)
          => \/ hDec'.started = hDec.started + 1
             \/ \E r \in decRuns \ decRuns' :
                  r.id = hDec.lastId /\ (out'.ok => r.stage = "decrypt")]_vars
\* The only run ever started was pending when Clear was pressed; its decrypt
\* then succeeded and the cleared panel still shows nothing.
C20_Witness ==
  /\ hDec.started = 1 /\ hDec.cleared /\ decRuns = {}
  /\ hDec.stale = {"ok"} /\ hDec.lastOut.ok
  /\ out = EmptyOut /\ bundleInput = EmptyText /\ selectedRid = ""

\* C21: the step in which a runEncrypt call gathers its recipients (its
\* encryptTextRaw has returned) leaves the recipient list with the same length
\* and the same rids, and leaves every recipient that had a key pair as it was,
\* whatever the user did to the list while the call was pending.
C21_OnlyFillsMissingKeys ==
  [][(\E r \in encRuns, q \in encRuns' :
        r.live /\ q.n = r.n /\ r.stage = "encrypt" /\ q.stage = "wrap")
       => /\ Len(enc'.recipients) = Len(enc.recipients)
          /\ \A i \in 1..Len(enc.recipients) :
               /\ i <= Len(enc'.recipients) => enc'.recipients[i].rid = enc.recipients[i].rid
               /\ (i <= Len(enc'.recipients) /\ HasKeys(enc.recipients[i]))
                    => enc'.recipients[i] = enc.recipients[i]]_vars
\* A run that was started over a recipient without keys has gathered its
\* recipients after the user edited the inputs during its encryptTextRaw call.
C21_Witness ==
  \E r \in encRuns :
    /\ r.stage = "wrap" /\ r.live /\ hEnc.edited
    /\ \E i \in 1..Len(r.recipients) : ~HasKeys(r.recipients[i])
    /\ enc.recipients = EnsureAll(r.recipients, 0).next

\* C22: u8ToHex(b) is "0x" followed by two lowercase hex digits per byte, and
\* hexToU8 of that text, with or without its "0x", is b again; of a text of hex
\* digits, with or without "0x", hexToU8 throws "Invalid hex length" when the
\* number of digits is odd and otherwise returns one byte per two digits.
C22_HexCodec ==
  LET chars == codec.text.chars
      digits == IF ~codec.bare /\ StartsWith(chars, <<"0", "x">>)
                THEN SubSeq(chars, 3, Len(chars)) ELSE chars
      lower == {"0", "1", "2", "3", "4", "5", "6", "7", "8", "9", "a", "b", "c", "d", "e", "f"}
      upper == {"A", "B", "C", "D", "E", "F"}
  IN /\ (codec.src = "bytes" /\ codec.text.present)
          => /\ codec.bare \/ SubSeq(chars, 1, 2) = <<"0", "x">>
             /\ Len(digits) = 2 * Len(codec.bytes)
             /\ \A i \in 1..Len(digits) : digits[i] \in lower
             /\ codec.dec.done => (codec.dec.ok /\ codec.dec.bytes = codec.bytes)
     /\ (codec.src = "text" /\ codec.dec.done
         /\ \A i \in 1..Len(digits) : digits[i] \in lower \cup upper)
          => IF Len(digits) % 2 = 1
             THEN ~codec.dec.ok /\ codec.dec.error = "Invalid hex length"
             ELSE codec.dec.ok /\ Len(codec.dec.bytes) = Len(digits) \div 2
\* Two bytes, one below 16, were printed, the "0x" was dropped, and hexToU8 gave
\* the bytes back.
C22_Witness ==
  /\ codec.src = "bytes" /\ codec.bare /\ codec.dec.done
  /\ codec.bytes = <<10, 171>> /\ codec.text.chars = <<"0", "a", "a", "b">>
  /\ codec.dec.bytes = <<10, 171>>

====
